---- MODULE Spec2Model ----
(***************************************************************************)
(* A model of the Sentinel2_Extractor helper programs:                     *)
(*   - fix_notebook_comprehensive.py  (the comprehensive patch utility)    *)
(*   - precipitation_analysis.py      (PrecipitationAnalyzer)              *)
(*   - integrate_precipitation.py     (the Integrator)                     *)
(*   - fix_embeddings.py              (get_regional_reference)             *)
(* Each program has its own specification (SpecNotebook, SpecClassify,     *)
(* SpecIntegrate, SpecSeason, SpecRegional) over its own variables; the    *)
(* variables of the other programs are left at their idle values.          *)
(***************************************************************************)
EXTENDS Integers, Sequences, FiniteSets, TLC

VARIABLES
    \* fix_notebook_comprehensive.py
    notebook,        \* notebook['cells'] of the document on disk
    fixes_applied,   \* the list printed by the most recent run
    runs,            \* number of completed runs of fix_notebook
    nb_readable,     \* whether the document can be opened and parsed
    nb_writes,       \* the paths written so far, in order
    exit_status,     \* <<>> before any run, then the status of the last run
    \* precipitation_analysis.py: the two classifiers
    cl_input,        \* the input drawn for the classifier
    cl_result,       \* the label returned, "" before the call
    \* integrate_precipitation.py
    ip_pc,           \* position inside integrate_precipitation_with_notebook
    results_df,      \* the results table (rows and column flags)
    precip_data,     \* yearly_analysis of precipitation_context.json
    files,           \* the files present under output_dir
    calls,           \* the functions called so far, in order
    summary,         \* the report built by generate_enhanced_summary
    returned,        \* the value returned to the caller
    table,           \* the summary table of the figure, row by row
    \* precipitation_analysis.py: analyze_growing_season
    gs_pc,           \* "start" or "done"
    baseline_stats,  \* the baseline_stats argument: given or not, and the dict
    current_data,    \* the climate collection in the analysed year, per month
    baseline_data,   \* the climate collection in the baseline years, per month
    season_rows,     \* the rows of the returned table
    \* fix_embeddings.py: get_regional_reference
    rr_pc,           \* "loop" or "done"
    rr_args,         \* radius_km, max_radius_km
    rr_attempts,     \* the radii sampled so far, with their sample counts
    rr_result,       \* the returned dict
    \* fix_embeddings.py: get_embeddings
    ge_pc,           \* "idle", "call", "returned" or "raised"
    ge_stats,        \* the dict returned by stats.getInfo()
    ge_result,       \* the returned dict, or the error raised
    \* fix_embeddings.py: the patch script
    ef_files,        \* the notebook documents on disk, by path
    ef_printed,      \* what the most recent run printed
    ef_writes,       \* the paths written so far, in order
    ef_runs,         \* number of completed runs of the script
    ef_exit,         \* <<>> before any run, then the status of the last run
    \* precipitation_analysis.py: extract_monthly_precipitation
    ex_pc,           \* "idle", "loop" or "done"
    ex_collection,   \* the images of the climate collection in the year, per month
    ex_months,       \* the months argument: given or not, and the list
    ex_i,            \* the number of months the loop has handled
    ex_data,         \* monthly_data, the records built so far
    ex_remote,       \* the remote evaluations made so far, in order
    ex_warnings,     \* the months warned about, in order
    \* the raster pipeline: the loading, alignment and clipping cells
    rp_pc,           \* the statement of the pipeline that runs next
    rp_i,            \* the number of items the current loop has handled
    rp_input,        \* the uploads and the skip_alignment checkbox
    aoi_gdf,         \* the polygon, <<>> for None
    original_ndvi_datasets, \* the raster handles opened by the loading cell
    memfiles,        \* the MemoryFile objects kept by the loading cell
    ndvi_datasets,   \* the list the next stage reads
    aligned_ndvi_arrays, \* the arrays of the alignment cell
    target_crs,      \* the CRS of the target grid, <<>> for None
    clipped_ndvi_data_and_transforms,    \* the clipped items
    rp_open,         \* the MemoryFile objects and handles that are open
    rp_printed,      \* the messages printed so far
    \* fix_embeddings.py: cosine_similarity
    cs_pc,           \* "idle", "call" or "done"
    cs_a,            \* the vector a
    cs_b,            \* the vector b
    cs_result        \* the value returned

vars == <<notebook, fixes_applied, runs, nb_readable, nb_writes, exit_status,
          cl_input, cl_result, ip_pc, results_df, precip_data, files, calls,
          summary, returned, table, gs_pc, baseline_stats, current_data,
          baseline_data, season_rows, rr_pc, rr_args, rr_attempts, rr_result,
          ge_pc, ge_stats, ge_result, ef_files, ef_printed, ef_writes,
          ef_runs, ef_exit, ex_pc, ex_collection, ex_months, ex_i, ex_data, ex_remote,
          ex_warnings, rp_pc, rp_i, rp_input, aoi_gdf, original_ndvi_datasets,
          memfiles, ndvi_datasets, aligned_ndvi_arrays, target_crs,
          clipped_ndvi_data_and_transforms, rp_open, rp_printed, cs_pc, cs_a,
          cs_b, cs_result>>

nbVars == <<notebook, fixes_applied, runs, nb_readable, nb_writes, exit_status>>
clVars == <<cl_input, cl_result>>
ipVars == <<ip_pc, results_df, precip_data, files, calls, summary, returned, table>>
gsVars == <<gs_pc, baseline_stats, current_data, baseline_data, season_rows>>
rrVars == <<rr_pc, rr_args, rr_attempts, rr_result>>
geVars == <<ge_pc, ge_stats, ge_result>>
efVars == <<ef_files, ef_printed, ef_writes, ef_runs, ef_exit>>
exVars == <<ex_pc, ex_collection, ex_months, ex_i, ex_data, ex_remote, ex_warnings>>
rpVars == <<rp_pc, rp_i, rp_input, aoi_gdf, original_ndvi_datasets, memfiles,
            ndvi_datasets, aligned_ndvi_arrays, target_crs,
            clipped_ndvi_data_and_transforms, rp_open, rp_printed>>
csVars == <<cs_pc, cs_a, cs_b, cs_result>>

None == "None"

Range(s) == {s[k] : k \in 1..Len(s)}

(***************************************************************************)
(* Idle values of each program's variables.                                *)
(***************************************************************************)
nbIdle ==
    /\ notebook = <<>> /\ fixes_applied = <<>> /\ runs = 0
    /\ nb_readable = FALSE /\ nb_writes = <<>> /\ exit_status = <<>>
clIdle == cl_input = None /\ cl_result = ""
ipIdle ==
    /\ ip_pc = "idle" /\ results_df = None /\ precip_data = <<>>
    /\ files = {} /\ calls = <<>> /\ summary = None /\ returned = None
    /\ table = <<>>
gsIdle ==
    /\ gs_pc = "idle" /\ baseline_stats = <<>> /\ current_data = <<>>
    /\ baseline_data = <<>> /\ season_rows = <<>>
rrIdle ==
    /\ rr_pc = "idle" /\ rr_args = <<>> /\ rr_attempts = <<>> /\ rr_result = <<>>

geIdle ==
    ge_pc = "idle" /\ ge_stats = <<>> /\ ge_result = <<>>

efIdle ==
    /\ ef_files = <<>> /\ ef_printed = <<>> /\ ef_writes = <<>> /\ ef_runs = 0
    /\ ef_exit = <<>>

exIdle ==
    ex_pc = "idle" /\ ex_collection = <<>> /\ ex_months = <<>> /\ ex_i = 0
    /\ ex_data = <<>> /\ ex_remote = <<>> /\ ex_warnings = <<>>

rpIdle ==
    rp_pc = "idle" /\ rp_i = 0 /\ rp_input = <<>> /\ aoi_gdf = <<>>
    /\ original_ndvi_datasets = <<>> /\ memfiles = <<>> /\ ndvi_datasets = <<>>
    /\ aligned_ndvi_arrays = <<>> /\ target_crs = <<>>
    /\ clipped_ndvi_data_and_transforms = <<>>
    /\ rp_open = {} /\ rp_printed = <<>>

csIdle ==
    cs_pc = "idle" /\ cs_a = <<>> /\ cs_b = <<>> /\ cs_result = <<>>

(***************************************************************************)
(* What each program leaves alone: the variables of the other programs.    *)
(***************************************************************************)
nbOthers == <<clVars, ipVars, gsVars, rrVars, geVars, efVars, exVars, rpVars, csVars>>
clOthers == <<nbVars, ipVars, gsVars, rrVars, geVars, efVars, exVars, rpVars, csVars>>
ipOthers == <<nbVars, clVars, gsVars, rrVars, geVars, efVars, exVars, rpVars, csVars>>
gsOthers == <<nbVars, clVars, ipVars, rrVars, geVars, efVars, exVars, rpVars, csVars>>
rrOthers == <<nbVars, clVars, ipVars, gsVars, geVars, efVars, exVars, rpVars, csVars>>
geOthers == <<nbVars, clVars, ipVars, gsVars, rrVars, efVars, exVars, rpVars, csVars>>
efOthers == <<nbVars, clVars, ipVars, gsVars, rrVars, geVars, exVars, rpVars, csVars>>
exOthers == <<nbVars, clVars, ipVars, gsVars, rrVars, geVars, efVars, rpVars, csVars>>
rpOthers == <<nbVars, clVars, ipVars, gsVars, rrVars, geVars, efVars, exVars, csVars>>
csOthers == <<nbVars, clVars, ipVars, gsVars, rrVars, geVars, efVars, exVars, rpVars>>

nbOthersIdle == clIdle /\ ipIdle /\ gsIdle /\ rrIdle /\ geIdle /\ efIdle /\ exIdle /\ rpIdle /\ csIdle
clOthersIdle == nbIdle /\ ipIdle /\ gsIdle /\ rrIdle /\ geIdle /\ efIdle /\ exIdle /\ rpIdle /\ csIdle
ipOthersIdle == nbIdle /\ clIdle /\ gsIdle /\ rrIdle /\ geIdle /\ efIdle /\ exIdle /\ rpIdle /\ csIdle
gsOthersIdle == nbIdle /\ clIdle /\ ipIdle /\ rrIdle /\ geIdle /\ efIdle /\ exIdle /\ rpIdle /\ csIdle
rrOthersIdle == nbIdle /\ clIdle /\ ipIdle /\ gsIdle /\ geIdle /\ efIdle /\ exIdle /\ rpIdle /\ csIdle
geOthersIdle == nbIdle /\ clIdle /\ ipIdle /\ gsIdle /\ rrIdle /\ efIdle /\ exIdle /\ rpIdle /\ csIdle
efOthersIdle == nbIdle /\ clIdle /\ ipIdle /\ gsIdle /\ rrIdle /\ geIdle /\ exIdle /\ rpIdle /\ csIdle
exOthersIdle == nbIdle /\ clIdle /\ ipIdle /\ gsIdle /\ rrIdle /\ geIdle /\ efIdle /\ rpIdle /\ csIdle
rpOthersIdle == nbIdle /\ clIdle /\ ipIdle /\ gsIdle /\ rrIdle /\ geIdle /\ efIdle /\ exIdle /\ csIdle
csOthersIdle == nbIdle /\ clIdle /\ ipIdle /\ gsIdle /\ rrIdle /\ geIdle /\ efIdle /\ exIdle /\ rpIdle

(***************************************************************************)
(*                    fix_notebook_comprehensive.py                        *)
(*                                                                         *)
(* A text is a sequence of tokens: NL is the line terminator, every other   *)
(* token is the content of one line.  The fixed texts keep, in order, their *)
(* first line and every line that holds one of the marker strings the       *)
(* utility searches for; the other lines play no part in any search.        *)
(***************************************************************************)
NL == "\n"

\* The marker strings a line contains as substrings.
MarkersOf(line) ==
    CASE line = "import geopandas" -> {"import geopandas"}
      [] line = "import rasterio" -> {"import rasterio"}
      [] line = "import rasterio.warp" -> {"import rasterio"}
      [] line = "import rasterio.mask" -> {"import rasterio", "rasterio.mask"}
      [] line = "aoi_upload = widgets.FileUpload(" -> {"aoi_upload = widgets.FileUpload"}
      [] line = "aoi_gdf = None" -> {"aoi_gdf = None"}
      [] line = "                aoi_gdf = None" -> {"aoi_gdf = None"}
      [] line = "original_ndvi_datasets = []" -> {"original_ndvi_datasets"}
      [] line = "if not original_ndvi_datasets:" -> {"original_ndvi_datasets"}
      [] line = "aligned_ndvi_arrays = []" -> {"aligned_ndvi_arrays = []"}
      [] line = "target_crs = None" -> {"target_crs = None"}
      [] line = "clipped_ndvi_data_and_transforms = []" ->
             {"clipped_ndvi_data_and_transforms = []"}
      [] line = "def get_embeddings(geometry, year, scale=10):" ->
             {"def get_embeddings(geometry, year, scale=10):"}
      [] line = "        maxPixels=1e8" -> {"maxPixels=1e8"}
      [] line = "        val = result.get(f'A{i:02d}_mean', np.nan)" -> {"np.nan"}
      [] line = "            embedding_values.append(0.0)  # Use 0.0 instead of np.nan to avoid type issues" ->
             {"np.nan"}
      [] OTHER -> {}

imports_cell_code ==
    <<"# Imports for both Jupyter and Colab environments", NL,
      "import geopandas", NL, "import rasterio", NL, "import rasterio.mask">>

widget_setup_code ==
    <<"# Create configuration widgets", NL,
      "skip_alignment_widget = widgets.Checkbox(">>

file_upload_widgets_code ==
    <<"# Create file upload widgets", NL, "aoi_upload = widgets.FileUpload(">>

loading_cell_code ==
    <<"aoi_gdf = None", NL, "original_ndvi_datasets = []", NL,
      "memfiles = []  # Keep MemoryFile objects alive">>

alignment_cell_code ==
    <<"import rasterio.warp", NL, "aligned_ndvi_arrays = []", NL,
      "target_crs = None", NL, "if not original_ndvi_datasets:">>

clipping_cell_code ==
    <<"import rasterio.mask", NL, "clipped_ndvi_data_and_transforms = []", NL,
      "                aoi_gdf = None">>

\* str.split('\n'): the lines of a text, without their terminators.
RECURSIVE SplitAcc(_, _, _)
SplitAcc(text, cur, acc) ==
    IF text = <<>> THEN Append(acc, cur)
    ELSE IF Head(text) = NL THEN SplitAcc(Tail(text), <<>>, Append(acc, cur))
    ELSE SplitAcc(Tail(text), Append(cur, Head(text)), acc)

split(text) == SplitAcc(text, <<>>, <<>>)

\* ''.join(cell['source'])
RECURSIVE join(_)
join(source) == IF source = <<>> THEN <<>> ELSE Head(source) \o join(Tail(source))

\* marker in ''.join(cell['source'])
Contains(source, marker) ==
    LET text == join(source) IN
    \E k \in 1..Len(text) : marker \in MarkersOf(text[k])

\* [line + '\n' for line in text.split('\n')]: every line is terminated,
\* the last one included.
SourceLines(text) == [k \in 1..Len(split(text)) |-> Append(split(text)[k], NL)]

ImportsScanLimit == 10

IsImportsCell(i, source) ==
    /\ Contains(source, "import geopandas")
    /\ Contains(source, "import rasterio")
    /\ i - 1 < ImportsScanLimit

IsUploadCell(i, source) == Contains(source, "aoi_upload = widgets.FileUpload")

IsLoadingCell(i, source) ==
    Contains(source, "aoi_gdf = None") /\ Contains(source, "original_ndvi_datasets")

IsAlignmentCell(i, source) ==
    Contains(source, "aligned_ndvi_arrays = []") /\ Contains(source, "target_crs = None")

IsClippingCell(i, source) ==
    /\ Contains(source, "clipped_ndvi_data_and_transforms = []")
    /\ Contains(source, "rasterio.mask")

\* The test of each loop of the utility, applied to the cell at index i
\* (1-based here, so i - 1 is the index the code sees).
Matches(fix, i, cell) ==
    /\ cell.cell_type = "code"
    /\ CASE fix = "imports" -> IsImportsCell(i, cell.source)
         [] fix = "upload" -> IsUploadCell(i, cell.source)
         [] fix = "loading" -> IsLoadingCell(i, cell.source)
         [] fix = "alignment" -> IsAlignmentCell(i, cell.source)
         [] fix = "clipping" -> IsClippingCell(i, cell.source)

\* The index of the cell at which a loop breaks (mutant: the last cell
\* that passes the test instead of the first).
FirstMatch_last(cells, fix) ==
    IF \E i \in 1..Len(cells) : Matches(fix, i, cells[i])
    THEN CHOOSE i \in 1..Len(cells) :
            /\ Matches(fix, i, cells[i])
            /\ \A j \in (i + 1)..Len(cells) : ~Matches(fix, j, cells[j])
    ELSE 0

\* The index of the cell at which a loop breaks: the first cell that passes
\* its test, 0 if none does.
FirstMatch(cells, fix) ==
    IF \E i \in 1..Len(cells) : Matches(fix, i, cells[i])
    THEN CHOOSE i \in 1..Len(cells) :
            /\ Matches(fix, i, cells[i])
            /\ \A j \in 1..(i - 1) : ~Matches(fix, j, cells[j])
    ELSE 0

\* One replacement loop (mutant: the fix is recorded whether or not a cell
\* matched).
ReplaceFirst_always_records(st, fix, text, description) ==
    LET i == FirstMatch(st.cells, fix) IN
    IF i = 0 THEN [cells |-> st.cells, fixes |-> Append(st.fixes, description)]
    ELSE [cells |-> [st.cells EXCEPT ![i].source = SourceLines(text)],
          fixes |-> Append(st.fixes, description)]

\* One replacement loop: the first matching code cell gets the fixed source
\* and the fix is recorded; a missing pattern changes nothing.
ReplaceFirst(st, fix, text, description) ==
    LET i == FirstMatch(st.cells, fix) IN
    IF i = 0 THEN st
    ELSE [cells |-> [st.cells EXCEPT ![i].source = SourceLines(text)],
          fixes |-> Append(st.fixes, description)]

new_cell ==
    [cell_type |-> "code", metadata |-> {}, source |-> SourceLines(widget_setup_code),
     execution_count |-> None, outputs |-> <<>>]

InsertAt(cells, i, cell) ==
    SubSeq(cells, 1, i - 1) \o <<cell>> \o SubSeq(cells, i, Len(cells))

\* The insertion loop (mutant: the new cell is put after the upload cell).
InsertWidgetSetup_after(st) ==
    LET i == FirstMatch(st.cells, "upload") IN
    IF i = 0 THEN st
    ELSE [cells |-> InsertAt(st.cells, i + 1, new_cell),
          fixes |-> Append(st.fixes, "Added skip_alignment widget setup")]

\* The insertion loop: widget_setup_inserted is a local of the run, False
\* when the loop starts, so the first upload cell found gets a new cell
\* inserted before it.
InsertWidgetSetup(st) ==
    LET i == FirstMatch(st.cells, "upload") IN
    IF i = 0 THEN st
    ELSE [cells |-> InsertAt(st.cells, i, new_cell),
          fixes |-> Append(st.fixes, "Added skip_alignment widget setup")]

fix_notebook(cells) ==
    LET s0 == [cells |-> cells, fixes |-> <<>>]
        s1 == ReplaceFirst(s0, "imports", imports_cell_code,
                           "Updated imports cell for environment compatibility")
        s2 == InsertWidgetSetup(s1)
        s3 == ReplaceFirst(s2, "upload", file_upload_widgets_code,
                           "Updated file upload widgets")
        s4 == ReplaceFirst(s3, "loading", loading_cell_code,
                           "Fixed loading cell for both environments")
        s5 == ReplaceFirst(s4, "alignment", alignment_cell_code,
                           "Updated alignment cell")
        s6 == ReplaceFirst(s5, "clipping", clipping_cell_code,
                           "Updated clipping cell")
    IN s6

\* The documents the utility is run on: up to MaxCells cells of a notebook,
\* optionally after PadCells markdown cells (so that a cell can sit at or
\* beyond the imports scan limit).
MaxCells == 3
MaxRuns == 2
PadCells == 8

OldSources ==
    { << <<"import geopandas", NL>>, <<"import rasterio">> >>,
      << <<"aoi_upload = widgets.FileUpload(">> >>,
      << <<"aoi_gdf = None", NL>>, <<"original_ndvi_datasets = []">> >>,
      << <<"aligned_ndvi_arrays = []", NL>>, <<"target_crs = None">> >>,
      << <<"import rasterio.mask", NL>>, <<"clipped_ndvi_data_and_transforms = []">> >>,
      << <<"import geopandas", NL>>, <<"import rasterio", NL>>,
         <<"aoi_upload = widgets.FileUpload(">> >>,
      << <<"print('done')">> >> }

OldCells ==
    {[cell_type |-> "code", metadata |-> {"old"}, source |-> s,
      execution_count |-> 1, outputs |-> <<"out">>] : s \in OldSources}
    \cup
    {[cell_type |-> "markdown", metadata |-> {"old"}, source |-> s,
      execution_count |-> None, outputs |-> <<>>] :
        s \in { << <<"aoi_upload = widgets.FileUpload(">> >>, << <<"# Title">> >> }}

PadCell ==
    [cell_type |-> "markdown", metadata |-> {"old"}, source |-> << <<"# Title">> >>,
     execution_count |-> None, outputs |-> <<>>]

Documents ==
    UNION {[1..n -> OldCells] : n \in 0..MaxCells}
    \cup {[k \in 1..PadCells |-> PadCell] \o d : d \in [1..MaxCells -> OldCells]}

ComprehensivePath == "Multi_Year_ProductivityRaster.ipynb"

InitNotebook ==
    /\ notebook \in Documents
    /\ fixes_applied = <<>>
    /\ runs = 0
    /\ nb_readable \in BOOLEAN
    /\ nb_writes = <<>>
    /\ exit_status = <<>>
    /\ nbOthersIdle

\* One run of the script: load, apply the six fixes, save, print the
\* fixes, return True and exit with status 0.
FixNotebook ==
    /\ runs < MaxRuns
    /\ nb_readable
    /\ notebook' = fix_notebook(notebook).cells
    /\ fixes_applied' = fix_notebook(notebook).fixes
    /\ nb_writes' = Append(nb_writes, ComprehensivePath)
    /\ exit_status' = <<0>>
    /\ runs' = runs + 1
    /\ UNCHANGED <<nb_readable, nbOthers>>

\* One run of the script on a document that cannot be opened or parsed:
\* the error of the load is not handled, nothing is written or printed and
\* the interpreter exits with status 1.
FixNotebookLoadFails ==
    /\ runs < MaxRuns
    /\ ~nb_readable
    /\ fixes_applied' = <<>>
    /\ exit_status' = <<1>>
    /\ runs' = runs + 1
    /\ UNCHANGED <<notebook, nb_readable, nb_writes, nbOthers>>

NextNotebook == FixNotebook \/ FixNotebookLoadFails

SpecNotebook == InitNotebook /\ [][NextNotebook]_vars

ConfigCells(cells) ==
    {i \in 1..Len(cells) : cells[i].source = SourceLines(widget_setup_code)}

\* The content of the cell a fix targets (the first code cell holding its
\* markers), <<>> when there is none.
TargetContent(cells, fix) ==
    LET i == FirstMatch(cells, fix) IN
    IF i = 0 THEN <<>> ELSE join(cells[i].source)

\* C1: a second run of the patch utility leaves the imports, upload-widgets,
\* loading, alignment and clipping cells as the first run left them and
\* inserts no further configuration-widget cell.
C1_SecondRunIdempotent ==
    [][runs >= 1 =>
         /\ Cardinality(ConfigCells(notebook')) = Cardinality(ConfigCells(notebook))
         /\ TargetContent(notebook', "imports") = TargetContent(notebook, "imports")
         /\ TargetContent(notebook', "upload") = TargetContent(notebook, "upload")
         /\ TargetContent(notebook', "loading") = TargetContent(notebook, "loading")
         /\ TargetContent(notebook', "alignment") = TargetContent(notebook, "alignment")
         /\ TargetContent(notebook', "clipping") = TargetContent(notebook, "clipping")
    ]_vars

(***************************************************************************)
(*                      IEEE-754 binary64 arithmetic                       *)
(*                                                                         *)
(* Python floats and numpy float64 values are binary64 numbers.  A double  *)
(* is modelled as [sign, m, e], the value sign * m * 2^e with m a 53-bit   *)
(* mantissa (2^52 <= m < 2^53); 0.0 is [0, <<>>, 0] and stands for -0.0    *)
(* too.  The operations round to nearest, ties to even, as the hardware    *)
(* does.  Subnormal numbers, infinities and NaN are outside the values     *)
(* explored.  A mantissa does not fit the integers of the checker, so a    *)
(* natural number is a sequence of limbs in base LimbBase, least           *)
(* significant first, without leading zero limbs.                          *)
(***************************************************************************)
LimbBits == 15
LimbBase == 32768
MantissaBits == 53

Pow2(t) == 2^t

RECURSIVE Strip(_)
Strip(a) ==
    IF a = <<>> THEN <<>>
    ELSE IF a[Len(a)] = 0 THEN Strip(SubSeq(a, 1, Len(a) - 1))
    ELSE a

RECURSIVE BInt(_)
BInt(n) == IF n = 0 THEN <<>> ELSE <<n % LimbBase>> \o BInt(n \div LimbBase)

Limb(a, i) == IF 1 <= i /\ i <= Len(a) THEN a[i] ELSE 0

RECURSIVE BAddC(_, _, _, _)
BAddC(a, b, i, carry) ==
    IF i > Len(a) /\ i > Len(b)
    THEN IF carry = 0 THEN <<>> ELSE <<carry>>
    ELSE LET x == Limb(a, i) + Limb(b, i) + carry
         IN  <<x % LimbBase>> \o BAddC(a, b, i + 1, x \div LimbBase)

BAdd(a, b) == BAddC(a, b, 1, 0)

\* a - b for a >= b
RECURSIVE BSubB(_, _, _, _)
BSubB(a, b, i, borrow) ==
    IF i > Len(a) THEN <<>>
    ELSE LET x == a[i] - Limb(b, i) - borrow
         IN  IF x < 0 THEN <<x + LimbBase>> \o BSubB(a, b, i + 1, 1)
             ELSE <<x>> \o BSubB(a, b, i + 1, 0)

BSub(a, b) == Strip(BSubB(a, b, 1, 0))

\* a <= b, compared from the most significant limb down
RECURSIVE BLeFrom(_, _, _)
BLeFrom(a, b, i) ==
    IF i = 0 THEN TRUE
    ELSE IF a[i] # b[i] THEN a[i] < b[i]
    ELSE BLeFrom(a, b, i - 1)

BLe(a, b) == IF Len(a) # Len(b) THEN Len(a) < Len(b) ELSE BLeFrom(a, b, Len(a))

RECURSIVE BMulSmallC(_, _, _, _)
BMulSmallC(a, k, i, carry) ==
    IF i > Len(a)
    THEN IF carry = 0 THEN <<>> ELSE <<carry>>
    ELSE LET x == a[i] * k + carry
         IN  <<x % LimbBase>> \o BMulSmallC(a, k, i + 1, x \div LimbBase)

BMulSmall(a, k) == IF k = 0 THEN <<>> ELSE BMulSmallC(a, k, 1, 0)

ShiftLimb(a) == IF a = <<>> THEN <<>> ELSE <<0>> \o a

RECURSIVE BMulFrom(_, _, _)
BMulFrom(a, b, j) ==
    IF j > Len(b) THEN <<>>
    ELSE BAdd(BMulSmall(a, b[j]), ShiftLimb(BMulFrom(a, b, j + 1)))

BMul(a, b) == BMulFrom(a, b, 1)

\* 2^t
BPow2(t) ==
    [i \in 1..(t \div LimbBits + 1) |->
        IF i = t \div LimbBits + 1 THEN Pow2(t % LimbBits) ELSE 0]

RECURSIVE SmallBitLen(_)
SmallBitLen(x) == IF x = 0 THEN 0 ELSE 1 + SmallBitLen(x \div 2)

BitLen(a) ==
    IF a = <<>> THEN 0 ELSE LimbBits * (Len(a) - 1) + SmallBitLen(a[Len(a)])

\* floor(a / 2^t)
BShr(a, t) ==
    LET q == t \div LimbBits
        r == t % LimbBits
    IN  Strip([i \in 1..(IF Len(a) > q THEN Len(a) - q ELSE 0) |->
                  (Limb(a, i + q) \div Pow2(r))
                  + (Limb(a, i + q + 1) % Pow2(r)) * Pow2(LimbBits - r)])

\* a * 2^t
BShl(a, t) ==
    LET q == t \div LimbBits
        r == t % LimbBits
    IN  IF a = <<>> THEN <<>>
        ELSE Strip([i \in 1..(Len(a) + q + 1) |->
                       (Limb(a, i - q) % Pow2(LimbBits - r)) * Pow2(r)
                       + Limb(a, i - q - 1) \div Pow2(LimbBits - r)])

\* a mod 2^t
BLow(a, t) ==
    LET q == t \div LimbBits
        r == t % LimbBits
    IN  IF Len(a) <= q THEN a
        ELSE Strip([i \in 1..(q + 1) |-> IF i <= q THEN a[i] ELSE a[i] % Pow2(r)])

BOdd(a) == a # <<>> /\ a[1] % 2 = 1

\* Whether q + rem / (2 * half) rounds up to q + 1: beyond the half, or at
\* the half when something follows (sticky) or q is odd.
RoundsUp(q, rem, half, sticky) ==
    IF rem = half THEN sticky \/ BOdd(q) ELSE ~BLe(rem, half)

\* The mantissa m * 2^sh, brought back to MantissaBits bits when the
\* rounding carried into one bit more.
Carried(m, sh) ==
    IF BitLen(m) > MantissaBits THEN [m |-> BShr(m, 1), e |-> sh + 1]
    ELSE [m |-> m, e |-> sh]

\* x of more than MantissaBits bits, rounded at bit sh; q is x shifted.
RoundAt(x, sticky, sh, q) ==
    IF RoundsUp(q, BLow(x, sh), BPow2(sh - 1), sticky) THEN Carried(BAdd(q, <<1>>), sh)
    ELSE [m |-> q, e |-> sh]

RoundLen(x, sticky, len) ==
    IF len <= MantissaBits
    THEN [m |-> BShl(x, MantissaBits - len), e |-> len - MantissaBits]
    ELSE RoundAt(x, sticky, len - MantissaBits, BShr(x, len - MantissaBits))

\* The double nearest to x * (1 + d), 0 <= d < 2^-BitLen(x) and d # 0 iff
\* sticky, as [m, e]: x is about m * 2^e.  Ties go to the even mantissa.
RoundToDouble(x, sticky) == RoundLen(x, sticky, BitLen(x))

\* A double is [sign, m, e]: sign * m * 2^e; 0.0 has sign 0.
Zero == [sign |-> 0, m |-> <<>>, e |-> 0]

\* The double nearest to sign * x * 2^e, x a natural number; sticky as in
\* RoundToDouble.
Scale(sign, rd, e) == [sign |-> sign, m |-> rd.m, e |-> e + rd.e]

Double(sign, x, sticky, e) ==
    IF x = <<>> THEN Zero ELSE Scale(sign, RoundToDouble(x, sticky), e)

Abs(n) == IF n < 0 THEN -n ELSE n
Sign(n) == IF n < 0 THEN -1 ELSE IF n > 0 THEN 1 ELSE 0

\* The double that holds the integer n.
FromInt(n) == Double(Sign(n), BInt(Abs(n)), FALSE, 0)

One == FromInt(1)

\* x <= y and x < y of two doubles.
LessEq(x, y) ==
    IF x.sign # y.sign THEN x.sign < y.sign
    ELSE IF x.sign = 0 THEN TRUE
    ELSE LET below == IF x.e # y.e THEN x.e < y.e ELSE BLe(x.m, y.m)
             above == IF x.e # y.e THEN x.e > y.e ELSE BLe(y.m, x.m)
         IN  IF x.sign = 1 THEN below ELSE above

Less(x, y) == ~LessEq(y, x)

negative(x) == [sign |-> -x.sign, m |-> x.m, e |-> x.e]

\* The exponent gap beyond which the smaller term of a sum only decides the
\* direction of the rounding.
FarApart == 60

\* sa * a * 2^base + sb * b * 2^base, rounded.
AddMantissas(sa, a, sb, b, base) ==
    IF sa = sb THEN Double(sa, BAdd(a, b), FALSE, base)
    ELSE IF BLe(b, a) THEN Double(sa, BSub(a, b), FALSE, base)
    ELSE Double(sb, BSub(b, a), FALSE, base)

\* hi + lo for hi.e >= lo.e: the mantissas are brought to one exponent; a
\* term far below the other counts as one unit below its last bit.
AddAligned(hi, lo) ==
    IF hi.e - lo.e <= FarApart
    THEN AddMantissas(hi.sign, BShl(hi.m, hi.e - lo.e), lo.sign, lo.m, lo.e)
    ELSE AddMantissas(hi.sign, BShl(hi.m, FarApart), lo.sign, <<1>>, hi.e - FarApart)

\* x + y of two doubles: the exact sum, rounded.
add(x, y) ==
    IF x.sign = 0 THEN y
    ELSE IF y.sign = 0 THEN x
    ELSE IF x.e >= y.e THEN AddAligned(x, y)
    ELSE AddAligned(y, x)

subtract(x, y) == add(x, negative(y))

\* x * y of two doubles
multiply(x, y) ==
    IF x.sign = 0 \/ y.sign = 0 THEN Zero
    ELSE Double(x.sign * y.sign, BMul(x.m, y.m), FALSE, x.e + y.e)

\* Long division, one limb of the quotient per step.  The divisor d has
\* QuotientLimbs limbs, the top one at least LimbBase / 2, and rem < d *
\* LimbBase.  The digit is guessed from the top limbs of rem and d, which
\* never gives too small a digit, and lowered until digit * d fits in rem.
RECURSIVE Lower(_, _, _, _)
Lower(rem, d, digit, product) ==
    IF BLe(product, rem) THEN [digit |-> digit, rem |-> BSub(rem, product)]
    ELSE Lower(rem, d, digit - 1, BSub(product, d))

DivDigit(rem, d) ==
    LET top == Limb(rem, Len(d) + 1) * LimbBase + Limb(rem, Len(d))
        guess == IF top \div d[Len(d)] < LimbBase THEN top \div d[Len(d)]
                 ELSE LimbBase - 1
    IN  Lower(rem, d, guess, BMulSmall(d, guess))

\* `count` further limbs of the quotient rem / d (rem < d), the least
\* significant first, and the remainder left.
RECURSIVE DivLimbs(_, _, _)
PutDigit(digit, rest) == [limbs |-> rest.limbs \o <<digit>>, rem |-> rest.rem]

DivRest(first, d, count) == PutDigit(first.digit, DivLimbs(first.rem, d, count - 1))

DivLimbs(rem, d, count) ==
    IF count = 0 THEN [limbs |-> <<>>, rem |-> rem]
    ELSE DivRest(DivDigit(ShiftLimb(rem), d), d, count)

QuotientLimbs == 4

\* x / y of two doubles, y # 0.0: the quotient of the mantissas, its whole
\* part (0 or 1) and QuotientLimbs limbs beyond the binary point, rounded.
Quotient(sign, whole, frac, e) ==
    Double(sign, IF whole THEN frac.limbs \o <<1>> ELSE Strip(frac.limbs),
           frac.rem # <<>>, e - QuotientLimbs * LimbBits)

Divide(sign, whole, first, d, e) ==
    Quotient(sign, whole,
             DivLimbs(BShl(first, QuotientLimbs * LimbBits - MantissaBits),
                      BShl(d, QuotientLimbs * LimbBits - MantissaBits), QuotientLimbs),
             e)

true_divide(x, y) ==
    IF x.sign = 0 THEN Zero
    ELSE IF BLe(y.m, x.m)
    THEN Divide(x.sign * y.sign, TRUE, BSub(x.m, y.m), y.m, x.e - y.e)
    ELSE Divide(x.sign * y.sign, FALSE, x.m, y.m, x.e - y.e)

\* a \div k and a % k of a natural number a and a small k: long division
\* from the top limb down.
RECURSIVE DivSmallFrom(_, _, _, _)
DivSmallStep(a, k, i, cur) == PutDigit(cur \div k, DivSmallFrom(a, k, i - 1, cur % k))

DivSmallFrom(a, k, i, rem) ==
    IF i = 0 THEN [limbs |-> <<>>, rem |-> rem]
    ELSE DivSmallStep(a, k, i, rem * LimbBase + a[i])

BDivSmall(a, k) == DivSmallFrom(a, k, Len(a), 0)

\* The square root digit by digit: the pairs of bits of n from pair j down
\* to pair 0, then SqrtExtra pairs of zeros, each giving one bit of the root.
SqrtExtra == 29

\* Bits 2j and 2j + 1 of the natural number n.
Pair(n, j) ==
    LET i == (2 * j) \div LimbBits + 1
        r == (2 * j) % LimbBits
    IN  IF r < LimbBits - 1 THEN (Limb(n, i) \div Pow2(r)) % 4
        ELSE Limb(n, i) \div Pow2(r) + 2 * (Limb(n, i + 1) % 2)

\* One step: rem4 is the remainder with the next pair of bits appended,
\* trial is 4 * root + 1, what the next bit 1 would take from it.
RECURSIVE SqrtDigits(_, _, _, _)
SqrtStep(n, rem4, trial, root, j) ==
    IF BLe(trial, rem4)
    THEN SqrtDigits(n, BSub(rem4, trial), BMulSmallC(root, 2, 1, 1), j - 1)
    ELSE SqrtDigits(n, rem4, BMulSmallC(root, 2, 1, 0), j - 1)

SqrtDigits(n, rem, root, j) ==
    IF j < 0 - SqrtExtra THEN [root |-> root, rem |-> rem]
    ELSE SqrtStep(n, BMulSmallC(rem, 4, 1, IF j >= 0 THEN Pair(n, j) ELSE 0),
                  BMulSmallC(root, 4, 1, 1), root, j)

Root(r, e) == Double(1, r.root, r.rem # <<>>, e - SqrtExtra)

\* The square root of n * 4^e
SqrtOf(n, e) == Root(SqrtDigits(n, <<>>, <<>>, BitLen(n) \div 2), e)

\* np.sqrt of a double x >= 0.0
sqrt(x) ==
    IF x.sign = 0 THEN Zero
    ELSE SqrtOf(BShl(x.m, x.e % 2), (x.e - (x.e % 2)) \div 2)

\* The modulus of the double x scaled by k, a natural number: its whole
\* part and how what follows compares with 0 and with 1/2.
Parts(whole, rest, mid) ==
    [whole |-> whole, frac |-> rest # <<>>, half |-> BLe(mid, rest), tie |-> rest = mid]

ScaledBy(n, e) ==
    IF e >= 0
    THEN [whole |-> BShl(n, e), frac |-> FALSE, half |-> FALSE, tie |-> FALSE]
    ELSE Parts(BShr(n, -e), BLow(n, -e), BPow2(-e - 1))

Scaled(x, k) == ScaledBy(BMulSmall(x.m, k), x.e)

Nearest(s) ==
    IF s.half /\ (~s.tie \/ BOdd(s.whole)) THEN BAdd(s.whole, <<1>>) ELSE s.whole

\* The integer nearest to |x| * k, a tie to the even one.
NearestInteger(x, k) == Nearest(Scaled(x, k))

\* np.rint(x) and np.floor(x) of a double
rint(x) == IF x.sign = 0 THEN Zero ELSE Double(x.sign, NearestInteger(x, 1), FALSE, 0)

Floor(sign, s) ==
    Double(sign, IF sign = -1 /\ s.frac THEN BAdd(s.whole, <<1>>) ELSE s.whole, FALSE, 0)

floor(x) == IF x.sign = 0 THEN Zero ELSE Floor(x.sign, Scaled(x, 1))

\* The natural number a small enough to be an integer of the checker.
RECURSIVE Small(_)
Small(a) == IF a = <<>> THEN 0 ELSE a[1] + LimbBase * Small(Tail(a))

\* int(x) of the double x that holds a small integer
ToInt(x) == IF x.sign = 0 THEN 0 ELSE x.sign * Small(BShr(x.m, -x.e))

(***************************************************************************)
(*                 Python numbers and the numpy reductions                 *)
(*                                                                         *)
(* A number is [type, val]: val the double that holds it, type "int" (a    *)
(* Python integer, small enough to be held exactly), "float" (a Python     *)
(* float) or "float64" (a numpy scalar).  The type decides how round()     *)
(* rounds and what the type of a result is.                                *)
(***************************************************************************)
py_int(n) == [type |-> "int", val |-> FromInt(n)]
py_float(x) == [type |-> "float", val |-> x]
np_float64(x) == [type |-> "float64", val |-> x]

\* The Python float of the decimal literal n / scale, scale a power of ten:
\* the double nearest to it.
Decimal(n, scale) == py_float(true_divide(FromInt(n), FromInt(scale)))

\* The type of the result of an arithmetic operation on two numbers.
ResultType(s, t) ==
    IF "float64" \in {s, t} THEN "float64"
    ELSE IF "float" \in {s, t} THEN "float"
    ELSE "int"

\* x + y, x - y, x * y, x / y, x <= y, x < y and x > y of Python
num_add(x, y) == [type |-> ResultType(x.type, y.type), val |-> add(x.val, y.val)]
num_sub(x, y) == [type |-> ResultType(x.type, y.type), val |-> subtract(x.val, y.val)]
num_mul(x, y) == [type |-> ResultType(x.type, y.type), val |-> multiply(x.val, y.val)]
num_truediv(x, y) ==
    [type |-> ResultType("float", ResultType(x.type, y.type)),
     val |-> true_divide(x.val, y.val)]
num_le(x, y) == LessEq(x.val, y.val)
num_lt(x, y) == Less(x.val, y.val)
num_gt(x, y) == Less(y.val, x.val)

\* The bits of n / 10 kept beyond the binary point before the rounding.
TenthBits == 60

\* The double nearest to sign * n / 10, n a natural number: the quotient of
\* n * 2^TenthBits by 10 and whether a remainder is left, rounded once.
Tenths(sign, quotient) ==
    Double(sign, Strip(quotient.limbs), quotient.rem # 0, -TenthBits)

\* float.__round__(x, 1): the decimal of one digit nearest to the exact
\* value of x (a tie to the even digit), converted back to a double.
float_round(x) ==
    IF x.sign = 0 THEN Zero
    ELSE Tenths(x.sign, BDivSmall(BShl(NearestInteger(x, 10), TenthBits), 10))

\* numpy.float64.__round__(x, 1), that is ndarray.round(1):
\* rint(x * 10.0) / 10.0, each step rounded.
float64_round(x) == true_divide(rint(multiply(x, FromInt(10))), FromInt(10))

\* round(x, 1) of Python
round1(x) ==
    IF x.type = "int" THEN x
    ELSE IF x.type = "float" THEN py_float(float_round(x.val))
    ELSE np_float64(float64_round(x.val))

\* sum(values) of Python: from the integer 0 on, left to right.
RECURSIVE SumFrom(_, _)
SumFrom(acc, values) ==
    IF values = <<>> THEN acc ELSE SumFrom(num_add(acc, Head(values)), Tail(values))

sum(values) == SumFrom(py_int(0), values)

\* The inner loop of numpy's add.reduce over doubles (pairwise summation):
\* fewer than 8 values are added left to right from 0.0; up to 128 values
\* are added in eight running sums that are then paired, the values after
\* the last full block of eight added one by one.
RECURSIVE AddEach(_, _)
AddEach(acc, values) ==
    IF values = <<>> THEN acc ELSE AddEach(add(acc, Head(values)), Tail(values))

RECURSIVE Lanes(_, _)
Lanes(r, values) ==
    IF Len(values) < 8 THEN r
    ELSE Lanes([j \in 1..8 |-> add(r[j], values[j])], SubSeq(values, 9, Len(values)))

PairwiseBlock == 128

PairUp(r) ==
    add(add(add(r[1], r[2]), add(r[3], r[4])), add(add(r[5], r[6]), add(r[7], r[8])))

pairwise_sum(values) ==
    IF Len(values) < 8 THEN AddEach(Zero, values)
    ELSE AddEach(PairUp(Lanes(SubSeq(values, 1, 8), SubSeq(values, 9, Len(values)))),
                 SubSeq(values, Len(values) - (Len(values) % 8) + 1, Len(values)))

\* np.add.reduce of an array of at most PairwiseBlock doubles
umr_sum(values) == add(Zero, pairwise_sum(values))

\* np.mean of an array of doubles
mean(values) == true_divide(umr_sum(values), FromInt(Len(values)))

RECURSIVE Insert(_, _)
Insert(v, sorted) ==
    IF sorted = <<>> THEN <<v>>
    ELSE IF LessEq(v, Head(sorted)) THEN <<v>> \o sorted
    ELSE <<Head(sorted)>> \o Insert(v, Tail(sorted))

\* The values in increasing order.
RECURSIVE Sort(_)
Sort(values) == IF values = <<>> THEN <<>> ELSE Insert(Head(values), Sort(Tail(values)))

\* np.median: the mean of the middle value, or of the two middle values,
\* of the sorted array.
Middle(part, index, even) ==
    mean(SubSeq(part, IF even THEN index ELSE index + 1, index + 1))

median(values) == Middle(Sort(values), Len(values) \div 2, Len(values) % 2 = 0)

square(x) == multiply(x, x)

RECURSIVE Deviations(_, _)
Deviations(values, arrmean) ==
    IF values = <<>> THEN <<>>
    ELSE <<square(subtract(Head(values), arrmean))>> \o Deviations(Tail(values), arrmean)

\* np.std: the square root of the mean of the squared deviations from the
\* mean.
std(values) == sqrt(mean(Deviations(values, mean(values))))

\* numpy's _lerp: a + (b - a) * t, and b - (b - a) * (1 - t) from t = 0.5 on.
Interpolated(a, b, diff_b_a, t) ==
    IF LessEq(true_divide(FromInt(1), FromInt(2)), t)
    THEN subtract(b, multiply(diff_b_a, subtract(FromInt(1), t)))
    ELSE add(a, multiply(diff_b_a, t))

lerp(a, b, t) == Interpolated(a, b, subtract(b, a), t)

\* np.percentile(values, q), method "linear": the virtual index
\* (n - 1) * (q / 100), the two values around it in the sorted array and
\* their interpolation by the fractional part of the index.
Interpolation(arr, n, virtual_index, previous_index) ==
    lerp(arr[IF previous_index = -1 THEN n ELSE previous_index + 1],
         arr[IF previous_index = -1 THEN n ELSE previous_index + 2],
         subtract(virtual_index, FromInt(previous_index)))

\* The index before the virtual index, -1 from the last index on.
Previous(n, virtual_index) ==
    IF LessEq(FromInt(n - 1), virtual_index) THEN -1 ELSE ToInt(floor(virtual_index))

Quantile(arr, n, virtual_index) ==
    Interpolation(arr, n, virtual_index, Previous(n, virtual_index))

percentile(values, q) ==
    Quantile(Sort(values), Len(values),
             multiply(FromInt(Len(values) - 1), true_divide(FromInt(q), FromInt(100))))

(***************************************************************************)
(*          precipitation_analysis.py: the two classifiers                 *)
(* The arguments are numbers; the classifiers only compare them.  The      *)
(* inputs explored by SpecClassify are Python integers: precipitation      *)
(* values and percentiles in one unit, seasonal anomalies in whole         *)
(* percent.                                                                *)
(***************************************************************************)
classify_precipitation_anomaly_lt(current_precip, stats) ==
    IF num_lt(current_precip, stats.p10) THEN "Extremely Dry"
    ELSE IF num_le(current_precip, stats.p25) THEN "Dry"
    ELSE IF num_le(current_precip, stats.p75) THEN "Normal"
    ELSE IF num_le(current_precip, stats.p90) THEN "Wet"
    ELSE "Extremely Wet"

classify_precipitation_anomaly(current_precip, stats) ==
    IF num_le(current_precip, stats.p10) THEN "Extremely Dry"
    ELSE IF num_le(current_precip, stats.p25) THEN "Dry"
    ELSE IF num_le(current_precip, stats.p75) THEN "Normal"
    ELSE IF num_le(current_precip, stats.p90) THEN "Wet"
    ELSE "Extremely Wet"

\* _classify_seasonal_anomaly (mutant: +30 falls into the wetter class).
classify_seasonal_anomaly_open30(anomaly_percent) ==
    IF num_le(anomaly_percent, py_int(-30)) THEN "Extremely Dry Season"
    ELSE IF num_le(anomaly_percent, py_int(-15)) THEN "Dry Season"
    ELSE IF num_le(anomaly_percent, py_int(15)) THEN "Normal Season"
    ELSE IF num_lt(anomaly_percent, py_int(30)) THEN "Wet Season"
    ELSE "Extremely Wet Season"

classify_seasonal_anomaly_lt(anomaly_percent) ==
    IF num_le(anomaly_percent, py_int(-30)) THEN "Extremely Dry Season"
    ELSE IF num_lt(anomaly_percent, py_int(-15)) THEN "Dry Season"
    ELSE IF num_le(anomaly_percent, py_int(15)) THEN "Normal Season"
    ELSE IF num_le(anomaly_percent, py_int(30)) THEN "Wet Season"
    ELSE "Extremely Wet Season"

classify_seasonal_anomaly(anomaly_percent) ==
    IF num_le(anomaly_percent, py_int(-30)) THEN "Extremely Dry Season"
    ELSE IF num_le(anomaly_percent, py_int(-15)) THEN "Dry Season"
    ELSE IF num_le(anomaly_percent, py_int(15)) THEN "Normal Season"
    ELSE IF num_le(anomaly_percent, py_int(30)) THEN "Wet Season"
    ELSE "Extremely Wet Season"

\* The inputs the classifiers are applied to.
MaxAnomaly == 40
MaxPrecip == 145
PercentileValues == {0, 20, 40, 100, 140}

SortedPercentiles ==
    {st \in [p10 : PercentileValues, p25 : PercentileValues,
             p75 : PercentileValues, p90 : PercentileValues] :
        st.p10 <= st.p25 /\ st.p25 <= st.p75 /\ st.p75 <= st.p90}

ClassifierInputs ==
    {[fn |-> "seasonal", x |-> a] : a \in (0 - MaxAnomaly)..MaxAnomaly}
    \cup
    {[fn |-> "monthly", x |-> v, stats |-> st] :
        v \in 0..MaxPrecip, st \in SortedPercentiles}

\* The percentiles as the numbers the classifier is given.
IntegerStats(st) ==
    [p10 |-> py_int(st.p10), p25 |-> py_int(st.p25), p75 |-> py_int(st.p75),
     p90 |-> py_int(st.p90)]

InitClassify ==
    /\ cl_input \in ClassifierInputs
    /\ cl_result = ""
    /\ clOthersIdle

ClassifySeasonal ==
    /\ cl_result = ""
    /\ cl_input.fn = "seasonal"
    /\ cl_result' = classify_seasonal_anomaly(py_int(cl_input.x))
    /\ UNCHANGED <<cl_input, clOthers>>

ClassifyMonthly ==
    /\ cl_result = ""
    /\ cl_input.fn = "monthly"
    /\ cl_result' = classify_precipitation_anomaly(py_int(cl_input.x),
                                                    IntegerStats(cl_input.stats))
    /\ UNCHANGED <<cl_input, clOthers>>

NextClassify == ClassifySeasonal \/ ClassifyMonthly

SpecClassify == InitClassify /\ [][NextClassify]_vars

SeasonalResult(a) == cl_input.fn = "seasonal" /\ cl_input.x = a /\ cl_result # ""

\* C2 (as stated): the seasonal classifier maps -15 to "Dry Season", -16 to
\* "Extremely Dry Season", +15 to "Normal Season", +16 to "Wet Season" and
\* +31 to "Extremely Wet Season".
C2_AsStated ==
    /\ SeasonalResult(-15) => cl_result = "Dry Season"
    /\ SeasonalResult(-16) => cl_result = "Extremely Dry Season"
    /\ SeasonalResult(15) => cl_result = "Normal Season"
    /\ SeasonalResult(16) => cl_result = "Wet Season"
    /\ SeasonalResult(31) => cl_result = "Extremely Wet Season"

\* C2 (amended): the seasonal classifier maps -15 and -16 to "Dry Season"
\* (the extremely dry class starts at -30), +15 to "Normal Season", +16 to
\* "Wet Season" and +31 to "Extremely Wet Season".
C2_SeasonalBoundaries ==
    /\ SeasonalResult(-15) => cl_result = "Dry Season"
    /\ SeasonalResult(-16) => cl_result = "Dry Season"
    /\ SeasonalResult(-30) => cl_result = "Extremely Dry Season"
    /\ SeasonalResult(15) => cl_result = "Normal Season"
    /\ SeasonalResult(16) => cl_result = "Wet Season"
    /\ SeasonalResult(31) => cl_result = "Extremely Wet Season"

C2_Witness == SeasonalResult(-16) /\ cl_result = "Dry Season"

\* The five seasonal labels, from the driest to the wettest.
SeasonalLabels ==
    <<"Extremely Dry Season", "Dry Season", "Normal Season", "Wet Season",
      "Extremely Wet Season">>

Wetness(label) == CHOOSE k \in 1..Len(SeasonalLabels) : SeasonalLabels[k] = label

SeasonalThresholds == {-30, -15, 15, 30}

\* C25: the seasonal classifier gives every percent anomaly one of the five
\* seasonal labels; the label of a is never wetter than the label of any
\* b >= a; the label of a and of a + 1 differ exactly when a is one of the
\* thresholds -30, -15, +15, +30, and then a has the drier label and a + 1
\* the next wetter one.
C25_TotalAndMonotone ==
    cl_input.fn = "seasonal" /\ cl_result # "" =>
        LET a == cl_input.x
            above == classify_seasonal_anomaly(py_int(a + 1))
        IN  /\ cl_result \in Range(SeasonalLabels)
            /\ cl_result = classify_seasonal_anomaly(py_int(a))
            /\ \A b \in a..(MaxAnomaly + 1) :
                  /\ classify_seasonal_anomaly(py_int(b)) \in Range(SeasonalLabels)
                  /\ Wetness(cl_result) <= Wetness(classify_seasonal_anomaly(py_int(b)))
            /\ (above # cl_result) <=> (a \in SeasonalThresholds)
            /\ a \in SeasonalThresholds => Wetness(above) = Wetness(cl_result) + 1

\* +30 has been classified and is still a wet, not an extremely wet, season.
C25_Witness == SeasonalResult(30) /\ cl_result = "Wet Season"

MonthlyResult == cl_input.fn = "monthly" /\ cl_result # ""

SpecExample == [p10 |-> 20, p25 |-> 40, p75 |-> 100, p90 |-> 140]

\* C3: the monthly classifier returns "Extremely Dry" at or below p10, "Dry"
\* above p10 up to p25, "Normal" above p25 up to p75, "Wet" above p75 up to
\* p90 and "Extremely Wet" above p90, so a value equal to a percentile falls
\* into the drier class; with percentiles 20, 40, 100, 140 the values 20, 40,
\* 100, 140, 141 give the five classes in order.
C3_PercentileBands ==
    MonthlyResult =>
        LET x == cl_input.x
            st == cl_input.stats
        IN /\ (x <= st.p10) <=> (cl_result = "Extremely Dry")
           /\ (st.p10 < x /\ x <= st.p25) <=> (cl_result = "Dry")
           /\ (st.p25 < x /\ x <= st.p75) <=> (cl_result = "Normal")
           /\ (st.p75 < x /\ x <= st.p90) <=> (cl_result = "Wet")
           /\ (st.p90 < x) <=> (cl_result = "Extremely Wet")
           /\ st = SpecExample =>
                /\ x = 20 => cl_result = "Extremely Dry"
                /\ x = 40 => cl_result = "Dry"
                /\ x = 100 => cl_result = "Normal"
                /\ x = 140 => cl_result = "Wet"
                /\ x = 141 => cl_result = "Extremely Wet"

C3_Witness ==
    /\ MonthlyResult
    /\ cl_input.stats = SpecExample
    /\ cl_input.x = 140
    /\ cl_result = "Wet"

(***************************************************************************)
(*                      integrate_precipitation.py                         *)
(*                                                                         *)
(* A table is its set of columns and its rows, each row a function from    *)
(* the columns to values.  The cells of the performance columns           *)
(* (difference_in_differences, lease_vs_background, adjusted_performance)   *)
(* and of precip_anomaly_pct are numpy float64 numbers; the anomaly_percent *)
(* of a record of the context file is the Python integer the JSON holds.    *)
(***************************************************************************)
ContextFile == "precipitation_context.json"
FigureFile == "integrated_analysis.png"
CsvFile == "enhanced_reclamation_results.csv"
SummaryFile == "enhanced_summary.txt"

PrecipColumns ==
    {"precip_anomaly_pct", "precip_classification", "precip_impact",
     "adjusted_performance"}

\* str(year)
str(year) ==
    CASE year = 2020 -> "2020"
      [] year = 2021 -> "2021"
      [] year = 2022 -> "2022"
      [] year = 2023 -> "2023"

\* The initial value of the four added columns (lines 33-36).
ColumnDefault(c) ==
    CASE c = "precip_anomaly_pct" -> np_float64(Zero)
      [] c = "precip_classification" -> ""
      [] c = "precip_impact" -> ""
      [] c = "adjusted_performance" -> np_float64(Zero)

\* results_df.at[idx, column] = value, the column of dtype float64.
at_float64(value) == np_float64(value.val)

adjustment_factor_le(anomaly_percent) ==
    IF num_le(anomaly_percent, py_int(-15)) THEN Decimal(5, 100)
    ELSE IF num_gt(anomaly_percent, py_int(15)) THEN Decimal(-3, 100)
    ELSE py_float(Zero)

\* Lines 49-53: 0.05 in a dry year, -0.03 in a wet year, 0.0 otherwise.
adjustment_factor(anomaly_percent) ==
    IF num_lt(anomaly_percent, py_int(-15)) THEN Decimal(5, 100)
    ELSE IF num_gt(anomaly_percent, py_int(15)) THEN Decimal(-3, 100)
    ELSE py_float(Zero)

add_precipitation_context_to_results(df, yearly_analysis) ==
    LET cols == df.columns \cup PrecipColumns
        Blank(row) ==
            [c \in cols |-> IF c \in PrecipColumns THEN ColumnDefault(c) ELSE row[c]]
        Filled(row) ==
            LET year_data == yearly_analysis[str(row["year"])]
                base == [Blank(row) EXCEPT
                           !["precip_anomaly_pct"] = at_float64(year_data.anomaly_percent),
                           !["precip_classification"] = year_data.classification,
                           !["precip_impact"] = year_data.vegetation_impact]
            IN IF "difference_in_differences" \in cols
               THEN [base EXCEPT !["adjusted_performance"] =
                        at_float64(num_add(row["difference_in_differences"],
                                           adjustment_factor(year_data.anomaly_percent)))]
               ELSE base
    IN [columns |-> cols,
        rows |-> [i \in 1..Len(df.rows) |->
                    IF str(df.rows[i]["year"]) \in DOMAIN yearly_analysis
                    THEN Filled(df.rows[i])
                    ELSE Blank(df.rows[i])]]

\* format(value, format_spec) of a float: the specifications float accepts
\* among those the report uses; any other text raises ValueError.
FloatFormatSpecs == {".0f", ".1f", ".3f", ".4f"}

\* The format specification of each replacement field of the report's
\* difference-in-differences block (lines 220-235): in an f-string the text
\* after the first ':' of a field is its format specification.
DiDBlockSpecs ==
    <<".4f",
      ".4f if len(dry_years) > 0 else 'N/A'",
      ".4f if len(normal_years) > 0 else 'N/A'",
      ".4f if len(wet_years) > 0 else 'N/A'",
      ".4f",
      ".4f">>

\* The float that is not a number.
NaN == [type |-> "float64", val |-> [nan |-> TRUE]]

\* Series.mean() of a float64 column: the sum of the cells divided by their
\* count, NaN for no row.
series_mean(rows, c) ==
    IF rows = <<>> THEN NaN
    ELSE np_float64(mean([k \in 1..Len(rows) |-> rows[k][c].val]))

RecommendationsBlock ==
    <<"RECOMMENDATIONS:",
      "1. Focus additional assessment on normal precipitation years for most accurate evaluation",
      "2. Consider multi-year trends rather than single-year snapshots",
      "3. Account for lag effects - recovery may be delayed after extreme weather years",
      "4. Use precipitation-adjusted metrics for regulatory compliance decisions">>

\* Lines 198-201: the rows of a dry, of a wet and of a normal year.
IsDry(r) == num_lt(r["precip_anomaly_pct"], py_int(-15))

IsWet(r) == num_gt(r["precip_anomaly_pct"], py_int(15))

IsNormal(r) ==
    /\ num_le(py_int(-15), r["precip_anomaly_pct"])
    /\ num_le(r["precip_anomaly_pct"], py_int(15))

YearsOf(rows) == [i \in 1..Len(rows) |-> rows[i]["year"]]

\* The means the report gives, each the rows and the column it is taken
\* of: line 216 and, with a difference_in_differences column, lines 224-230.
ReportedMeans(df, dry_years, normal_years, wet_years) ==
    IF "difference_in_differences" \in df.columns
    THEN <<[rows |-> df.rows, column |-> "precip_anomaly_pct"],
           [rows |-> df.rows, column |-> "difference_in_differences"],
           [rows |-> dry_years, column |-> "difference_in_differences"],
           [rows |-> normal_years, column |-> "difference_in_differences"],
           [rows |-> wet_years, column |-> "difference_in_differences"],
           [rows |-> df.rows, column |-> "adjusted_performance"]>>
    ELSE <<[rows |-> df.rows, column |-> "precip_anomaly_pct"]>>

series_means(parts) ==
    [k \in 1..Len(parts) |-> series_mean(parts[k].rows, parts[k].column)]

\* Lines 238-249: the verdict on the mean of adjusted_performance; a NaN
\* is not >= -0.05.
verdict(adj_mean) ==
    IF adj_mean # NaN /\ num_le(Decimal(-5, 100), adj_mean)
    THEN <<"ADJUSTED ASSESSMENT: performing equivalently">>
    ELSE <<"ADJUSTED ASSESSMENT: underperforming">>

\* Lines 203-217: the head of the report.
header(df, dry_years, normal_years, wet_years, average_anomaly) ==
    <<"ENHANCED RECLAMATION ASSESSMENT WITH PRECIPITATION CONTEXT",
      [dry |-> YearsOf(dry_years), normal |-> YearsOf(normal_years),
       wet |-> YearsOf(wet_years), average_anomaly |-> average_anomaly]>>

\* Lines 219-257: the blocks of a table with a difference_in_differences
\* column.
did_blocks(dry_years, means) ==
    <<"PERFORMANCE METRICS:",
      [raw |-> means[2], dry |-> means[3], normal |-> means[4], wet |-> means[5],
       adjusted |-> means[6]]>>
    \o verdict(means[6])
    \o (IF Len(dry_years) > 0 THEN <<"DRY YEAR INSIGHTS:">> ELSE <<>>)

\* Lines 259-269: the block of a table without it.
simple_block ==
    <<"PERFORMANCE METRICS:", "Mean Similarity",
      "Precipitation context helps explain year-to-year variations in performance.">>

\* The report is the sequence of its blocks.
report(df, dry_years, normal_years, wet_years, means) ==
    IF "difference_in_differences" \in df.columns
    THEN IF \A k \in 1..Len(DiDBlockSpecs) : DiDBlockSpecs[k] \in FloatFormatSpecs
         THEN [raised |-> FALSE,
               text |-> header(df, dry_years, normal_years, wet_years, means[1])
                        \o did_blocks(dry_years, means) \o RecommendationsBlock]
         ELSE [raised |-> TRUE, error |-> "ValueError"]
    ELSE [raised |-> FALSE,
          text |-> header(df, dry_years, normal_years, wet_years, means[1])
                   \o simple_block \o RecommendationsBlock]

summary_of(df, dry_years, normal_years, wet_years) ==
    report(df, dry_years, normal_years, wet_years,
           series_means(ReportedMeans(df, dry_years, normal_years, wet_years)))

generate_enhanced_summary(df) ==
    summary_of(df, SelectSeq(df.rows, IsDry), SelectSeq(df.rows, IsNormal),
               SelectSeq(df.rows, IsWet))

\* The inputs of the Integrator.
MaxRows == 2
Years == {2020, 2021, 2022}
YearKeys == {"2020", "2021"}
PerformanceValues == {at_float64(Decimal(-8, 100)), at_float64(Decimal(-2, 100))}
AnomalyValues == {-35, -20, -15, 0, 15, 20, 35}

ImpactText(a) ==
    IF a < -15 THEN "Drought stress likely affecting crop growth"
    ELSE IF a > 15 THEN "Good moisture availability for growth"
    ELSE "Normal moisture conditions for typical growth"

YearRecords ==
    {[anomaly_percent |-> py_int(a),
      classification |-> classify_seasonal_anomaly(py_int(a)),
      vegetation_impact |-> ImpactText(a)] : a \in AnomalyValues}

YearlyAnalyses == UNION {[ks -> YearRecords] : ks \in SUBSET YearKeys}

InputColumns == {{"year", "difference_in_differences"}, {"year", "lease_vs_background"}}

InputRows(cols) ==
    {[c \in cols |-> IF c = "year" THEN y ELSE v] : y \in Years, v \in PerformanceValues}

InputTables ==
    UNION {{[columns |-> cols, rows |-> rs] :
              rs \in UNION {[1..n -> InputRows(cols)] : n \in 1..MaxRows}} :
           cols \in InputColumns}

InitIntegrate ==
    /\ ip_pc = "start"
    /\ results_df \in InputTables
    /\ \/ files = {ContextFile} /\ precip_data \in YearlyAnalyses
       \/ files = {} /\ precip_data = <<>>
    /\ calls = <<>>
    /\ summary = None
    /\ returned = None
    /\ table = <<>>
    /\ ipOthersIdle

\* The missing-file branch, were it to add the columns before returning.
IntegrateMissingContext_adds ==
    /\ ip_pc = "start"
    /\ ContextFile \notin files
    /\ results_df' = add_precipitation_context_to_results(results_df, precip_data)
    /\ returned' = results_df'
    /\ ip_pc' = "returned"
    /\ UNCHANGED <<precip_data, files, calls, summary, table>>
    /\ UNCHANGED ipOthers

\* Lines 300-308: output_dir is created if need be (no file appears in it);
\* the context file is missing: warn and return the input.
IntegrateMissingContext ==
    /\ ip_pc = "start"
    /\ ContextFile \notin files
    /\ returned' = results_df
    /\ ip_pc' = "returned"
    /\ UNCHANGED <<results_df, precip_data, files, calls, summary, table>>
    /\ UNCHANGED ipOthers

\* Lines 310-312.
IntegrateAddContext ==
    /\ ip_pc = "start"
    /\ ContextFile \in files
    /\ results_df' = add_precipitation_context_to_results(results_df, precip_data)
    /\ calls' = Append(calls, "add_precipitation_context_to_results")
    /\ ip_pc' = "visualize"
    /\ UNCHANGED <<precip_data, files, summary, returned, table>>
    /\ UNCHANGED ipOthers

\* Line 143: row['precip_classification'].split()[0], 'N/A' for ''.
first_word(classification) ==
    CASE classification = "" -> "N/A"
      [] classification = "Extremely Dry Season" -> "Extremely"
      [] classification = "Dry Season" -> "Dry"
      [] classification = "Normal Season" -> "Normal"
      [] classification = "Wet Season" -> "Wet"
      [] classification = "Extremely Wet Season" -> "Extremely"

\* The strings among 'Dry' and 'Wet' that a word of the table contains.
WordsIn(precip_class) ==
    CASE precip_class = "Dry" -> {"Dry"}
      [] precip_class = "Wet" -> {"Wet"}
      [] OTHER -> {}

\* Lines 165-173: the colour of the precipitation cell.
facecolor(precip_class) ==
    IF "Dry" \in WordsIn(precip_class) THEN "#ffcccc"
    ELSE IF "Wet" \in WordsIn(precip_class) THEN "#ccccff"
    ELSE "#ccffcc"

\* Lines 137-173: the rows of the summary table, one per row of the
\* results, with the text and the colour of the precipitation cell.
create_integrated_visualization(df) ==
    [i \in 1..Len(df.rows) |->
        [year |-> df.rows[i]["year"],
         precip |-> first_word(df.rows[i]["precip_classification"]),
         facecolor |-> facecolor(first_word(df.rows[i]["precip_classification"]))]]

\* Lines 314-316: the figure is saved to output_dir.
IntegrateVisualize ==
    /\ ip_pc = "visualize"
    /\ table' = create_integrated_visualization(results_df)
    /\ files' = files \cup {FigureFile}
    /\ calls' = Append(calls, "create_integrated_visualization")
    /\ ip_pc' = "summary"
    /\ UNCHANGED <<results_df, precip_data, summary, returned>>
    /\ UNCHANGED ipOthers

\* Lines 318-321: an error raised by generate_enhanced_summary propagates
\* to the caller.
IntegrateSummary ==
    /\ ip_pc = "summary"
    /\ calls' = Append(calls, "generate_enhanced_summary")
    /\ LET r == generate_enhanced_summary(results_df) IN
         IF r.raised
         THEN /\ ip_pc' = "raised"
              /\ returned' = r.error
              /\ summary' = summary
         ELSE /\ ip_pc' = "save"
              /\ summary' = r.text
              /\ returned' = returned
    /\ UNCHANGED <<results_df, precip_data, files, table>>
    /\ UNCHANGED ipOthers

\* Lines 323-330.
IntegrateSave ==
    /\ ip_pc = "save"
    /\ files' = files \cup {CsvFile, SummaryFile}
    /\ returned' = results_df
    /\ ip_pc' = "returned"
    /\ UNCHANGED <<results_df, precip_data, calls, summary, table>>
    /\ UNCHANGED ipOthers

NextIntegrate ==
    \/ IntegrateMissingContext
    \/ IntegrateAddContext
    \/ IntegrateVisualize
    \/ IntegrateSummary
    \/ IntegrateSave

SpecIntegrate == InitIntegrate /\ [][NextIntegrate]_vars

AddDone == "add_precipitation_context_to_results" \in Range(calls)

\* The decimals of the means of the report (.4f): ten to their number.
ReportDecimals == 10000

\* C4: after add_precipitation_context_to_results, a row whose str(year) is
\* a key of yearly_analysis carries that record's anomaly_percent,
\* classification and vegetation_impact, and its adjusted_performance is
\* difference_in_differences + 0.05 when anomaly_percent < -15, - 0.03 when
\* anomaly_percent > 15 and + 0 otherwise, the sums being those of floats
\* (-0.02 gives -0.02 + 0.05 at -20, which is 0.0300 in the decimals of the
\* report, and -0.05 at +20); a row whose year has no record keeps 0.0, '',
\* '', 0.0.
C4_AddedContext ==
    AddDone =>
        \A i \in 1..Len(results_df.rows) :
            LET r == results_df.rows[i]
                key == str(r["year"])
            IN IF key \in DOMAIN precip_data
               THEN LET a == precip_data[key].anomaly_percent IN
                    /\ r["precip_anomaly_pct"] = np_float64(a.val)
                    /\ r["precip_classification"] = precip_data[key].classification
                    /\ r["precip_impact"] = precip_data[key].vegetation_impact
                    /\ "difference_in_differences" \in results_df.columns =>
                         LET did == r["difference_in_differences"]
                             adj == r["adjusted_performance"]
                         IN /\ num_lt(a, py_int(-15)) =>
                                  adj = np_float64(add(did.val, Decimal(5, 100).val))
                            /\ num_gt(a, py_int(15)) =>
                                  adj = np_float64(add(did.val, Decimal(-3, 100).val))
                            /\ (num_le(py_int(-15), a) /\ num_le(a, py_int(15))) =>
                                  adj = did
                            /\ (did.val = Decimal(-2, 100).val /\ a = py_int(-20)) =>
                                  /\ adj.val.sign = 1
                                  /\ NearestInteger(adj.val, ReportDecimals)
                                        = BInt(3 * (ReportDecimals \div 100))
                            /\ (did.val = Decimal(-2, 100).val /\ a = py_int(20)) =>
                                  adj.val = Decimal(-5, 100).val
               ELSE /\ r["precip_anomaly_pct"] = np_float64(Zero)
                    /\ r["precip_classification"] = ""
                    /\ r["precip_impact"] = ""
                    /\ r["adjusted_performance"] = np_float64(Zero)

C4_Witness ==
    /\ AddDone
    /\ "difference_in_differences" \in results_df.columns
    /\ \E i \in 1..Len(results_df.rows) :
         /\ results_df.rows[i]["difference_in_differences"].val = Decimal(-2, 100).val
         /\ results_df.rows[i]["precip_anomaly_pct"].val = FromInt(-20)
         /\ results_df.rows[i]["precip_classification"] = "Dry Season"
         /\ results_df.rows[i]["adjusted_performance"].val
               = add(Decimal(-2, 100).val, Decimal(5, 100).val)
    /\ \E i \in 1..Len(results_df.rows) :
         /\ str(results_df.rows[i]["year"]) \notin DOMAIN precip_data
         /\ results_df.rows[i]["precip_classification"] = ""

\* C5: when precipitation_context.json is missing, the call returns the
\* input table as it was (no column added, no row changed), writes no file
\* and does not raise.
C5_MissingContext ==
    [][(ip_pc = "start" /\ ContextFile \notin files) =>
         /\ ip_pc' = "returned"
         /\ returned' = results_df
         /\ results_df' = results_df
         /\ files' = files
         /\ calls' = calls
    ]_vars

C5_Witness ==
    /\ ip_pc = "returned"
    /\ ContextFile \notin files
    /\ returned = results_df
    /\ results_df.columns \cap PrecipColumns = {}
    /\ files \cap {FigureFile, CsvFile, SummaryFile} = {}

\* C6: when the context file exists, the call runs
\* add_precipitation_context_to_results, create_integrated_visualization and
\* generate_enhanced_summary in that order and completes with the CSV and
\* the text report written and the enhanced table returned.
C6_PipelineCompletes ==
    (ContextFile \in files /\ ip_pc \in {"returned", "raised"}) =>
        /\ ip_pc = "returned"
        /\ calls = <<"add_precipitation_context_to_results",
                     "create_integrated_visualization",
                     "generate_enhanced_summary">>
        /\ {CsvFile, SummaryFile} \subseteq files
        /\ returned = results_df

\* C7: generate_enhanced_summary never raises: for every table with the
\* precipitation columns it returns a report that ends with the four-item
\* recommendations block.
C7_SummaryNeverRaises ==
    "generate_enhanced_summary" \in Range(calls) =>
        /\ ip_pc # "raised"
        /\ Len(summary) >= Len(RecommendationsBlock)
        /\ SubSeq(summary, Len(summary) - Len(RecommendationsBlock) + 1, Len(summary))
             = RecommendationsBlock

(***************************************************************************)
(*        precipitation_analysis.py: analyze_growing_season                *)
(*                                                                         *)
(* Precipitation is a number of millimetres: the Python float returned by  *)
(* getInfo().  The statistics of the baseline are numpy scalars, or the    *)
(* integer 0 for a month without a baseline value; round() rounds each to  *)
(* one decimal in the way of its type.  An optional value is a sequence:   *)
(* <<>> is None, <<v>> is v.  The climate collection is, per month, the    *)
(* reduction result of each of its images, <<>> when the month has no      *)
(* image.                                                                  *)
(***************************************************************************)
GrowingSeason == <<4, 5, 6, 7, 8, 9, 10>>
Months == Range(GrowingSeason)

\* calendar.month_name[month]
month_name(month) ==
    CASE month = 4 -> "April"
      [] month = 5 -> "May"
      [] month = 6 -> "June"
      [] month = 7 -> "July"
      [] month = 8 -> "August"
      [] month = 9 -> "September"
      [] month = 10 -> "October"

\* Lines 56-96, one pass of the loop over the months.  collection[month] is
\* the sequence of the images of the month, each one standing for its
\* regional mean in millimetres.  The size of the collection is always
\* evaluated; the first image is reduced only when there is one, otherwise
\* a warning is printed and precipitation_mm is None.
\* (Mutant: the reduction is made and 0 recorded when there is no image.)
extract_month_zero(collection, month) ==
    IF Len(collection[month]) > 0
    THEN [record |-> [precipitation_mm |-> <<Head(collection[month])>>,
                      month_name |-> month_name(month)],
          remote |-> <<[op |-> "size", month |-> month],
                       [op |-> "reduceRegion", month |-> month]>>,
          warnings |-> <<>>]
    ELSE [record |-> [precipitation_mm |-> <<py_int(0)>>, month_name |-> month_name(month)],
          remote |-> <<[op |-> "size", month |-> month],
                       [op |-> "reduceRegion", month |-> month]>>,
          warnings |-> <<month>>]

extract_month(collection, month) ==
    IF Len(collection[month]) > 0
    THEN [record |-> [precipitation_mm |-> <<Head(collection[month])>>,
                      month_name |-> month_name(month)],
          remote |-> <<[op |-> "size", month |-> month],
                       [op |-> "reduceRegion", month |-> month]>>,
          warnings |-> <<>>]
    ELSE [record |-> [precipitation_mm |-> <<>>, month_name |-> month_name(month)],
          remote |-> <<[op |-> "size", month |-> month]>>,
          warnings |-> <<month>>]

\* Lines 51-52: the months of the loop, April to October by default.
requested_months(months) == IF months.given THEN months.list ELSE GrowingSeason

DefaultMonths == [given |-> FALSE, list |-> <<>>]

\* Lines 51-98: one record per requested month.
extract_monthly_precipitation(collection, months) ==
    [month \in Range(requested_months(months)) |->
        extract_month(collection, month).record]

\* The inputs.  The current year: April is drawn on its own, as are the
\* VaryMonths months after it; the months that follow repeat the last of
\* them.  The baseline: April has one series, the other months share one.
VaryMonths == 1

PerMonth(S) ==
    {[m \in Months |-> choice[IF m > 3 + VaryMonths + 1 THEN VaryMonths + 1 ELSE m - 3]] :
        choice \in [1..(VaryMonths + 1) -> S]}

AprilAndRest(S) == {[m \in Months |-> IF m = 4 THEN april ELSE rest] : april \in S, rest \in S}

CurrentValues ==
    {<<>>, <<py_float(Zero)>>, <<Decimal(35, 100)>>, <<Decimal(49, 10)>>,
     <<Decimal(1234, 100)>>}

\* Line 21: the baseline years are range(2010, 2020) by default.
BaselineYears == 10

\* A value per baseline year, a in the years 2010, 2012, ... and b in the
\* others.
Alternating(a, b) == [year \in 1..BaselineYears |-> IF year % 2 = 1 THEN a ELSE b]

BaselineSeries ==
    { Alternating(<<>>, <<>>),
      Alternating(<<py_float(Zero)>>, <<py_float(Zero)>>),
      Alternating(<<Decimal(40, 1)>>, <<Decimal(60, 1)>>),
      Alternating(<<Decimal(4, 100)>>, <<>>),
      Alternating(<<Decimal(7, 1)>>, <<Decimal(7, 1)>>),
      Alternating(<<Decimal(5, 100)>>, <<Decimal(6, 100)>>) }

\* Lines 112-116: the values of the baseline years that are not None.
RECURSIVE Present(_)
Present(options) ==
    IF options = <<>> THEN <<>>
    ELSE Head(options) \o Present(Tail(options))

\* Line 122, np.array(precip_values): the doubles of the values.
array(precip_values) == [k \in 1..Len(precip_values) |-> precip_values[k].val]

\* Lines 123-131: the statistics of the array of a month.
statistics(precip_array) ==
    [mean |-> np_float64(mean(precip_array)),
     median |-> np_float64(median(precip_array)),
     stdev |-> np_float64(std(precip_array)),
     p10 |-> np_float64(percentile(precip_array, 10)),
     p25 |-> np_float64(percentile(precip_array, 25)),
     p75 |-> np_float64(percentile(precip_array, 75)),
     p90 |-> np_float64(percentile(precip_array, 90))]

\* Lines 135-143: the statistics of a month without a baseline value.
NoStatistics ==
    [mean |-> py_int(0), median |-> py_int(0), stdev |-> py_int(0), p10 |-> py_int(0),
     p25 |-> py_int(0), p75 |-> py_int(0), p90 |-> py_int(0)]

\* Lines 120-144, one pass of the loop: the statistics of the values of a
\* month.
month_statistics(options) ==
    LET precip_values == Present(options) IN
    IF Len(precip_values) > 0 THEN statistics(array(precip_values)) ELSE NoStatistics

\* month_statistics of the series explored, computed once and looked up.
KnownStatistics == [options \in BaselineSeries |-> month_statistics(options)]

Named(stats, month) ==
    [mean |-> stats.mean, median |-> stats.median, stdev |-> stats.stdev,
     p10 |-> stats.p10, p25 |-> stats.p25, p75 |-> stats.p75, p90 |-> stats.p90,
     month_name |-> month_name(month)]

\* Lines 118-146.
calculate_baseline_statistics(data) ==
    [month \in Months |->
        Named(IF data[month] \in DOMAIN KnownStatistics THEN KnownStatistics[data[month]]
              ELSE month_statistics(data[month]),
              month)]

\* Line 202: (anomaly / normal) * 100
anomaly_percent(anomaly, normal) == num_mul(num_truediv(anomaly, normal), py_int(100))

\* Lines 203-212: the row of a month with data, from its anomaly on.
AnomalyRow(current_precip, baseline, anomaly) ==
    [Month |-> baseline.month_name,
     Precipitation |-> round1(current_precip),
     Normal |-> round1(baseline.mean),
     AnomalyMm |-> round1(anomaly),
     AnomalyPct |-> round1(anomaly_percent(anomaly, baseline.mean)),
     Classification |-> classify_precipitation_anomaly(current_precip, baseline)]

\* Lines 201-212: the row of a month with data.
DataRow(current_precip, baseline) ==
    AnomalyRow(current_precip, baseline, num_sub(current_precip, baseline.mean))

MissingRow_zero_normal(baseline) ==
    [Month |-> baseline.month_name,
     Precipitation |-> py_int(0),
     Normal |-> py_int(0),
     AnomalyMm |-> py_int(0),
     AnomalyPct |-> py_int(0),
     Classification |-> "No Data"]

\* Lines 214-222: the row of a month handled as missing.
MissingRow(baseline) ==
    [Month |-> baseline.month_name,
     Precipitation |-> py_int(0),
     Normal |-> IF num_gt(baseline.mean, py_int(0)) THEN round1(baseline.mean)
                ELSE py_int(0),
     AnomalyMm |-> py_int(0),
     AnomalyPct |-> py_int(0),
     Classification |-> "No Data"]

\* Lines 195-222: the monthly rows, in month order.
RECURSIVE MonthlyRows(_, _, _)
MonthlyRows(months, current, baseline) ==
    IF months = <<>> THEN <<>>
    ELSE LET month == Head(months)
             rest == MonthlyRows(Tail(months), current, baseline)
         IN IF month \in DOMAIN current /\ month \in DOMAIN baseline
            THEN LET current_precip == current[month].precipitation_mm IN
                 IF current_precip # <<>> /\ num_gt(baseline[month].mean, py_int(0))
                 THEN <<DataRow(current_precip[1], baseline[month])>> \o rest
                 ELSE <<MissingRow(baseline[month])>> \o rest
            ELSE rest

\* Lines 225-226: the values of a column in the rows that are not "No Data".
Column(rows, field) ==
    LET usable == SelectSeq(rows, LAMBDA r : r.Classification # "No Data")
    IN  [k \in 1..Len(usable) |-> usable[k][field]]

\* Lines 235-242: the summary row of the sums and the seasonal anomaly.
SummaryRow(season_precip, season_normal, season_anomaly, season_anomaly_percent) ==
    [Month |-> "SEASONAL TOTAL",
     Precipitation |-> round1(season_precip),
     Normal |-> round1(season_normal),
     AnomalyMm |-> round1(season_anomaly),
     AnomalyPct |-> round1(season_anomaly_percent),
     Classification |-> classify_seasonal_anomaly(season_anomaly_percent)]

\* Lines 230 and 235-242, for a positive seasonal normal.
SummaryOfAnomaly(season_precip, season_normal, season_anomaly) ==
    SummaryRow(season_precip, season_normal, season_anomaly,
               anomaly_percent(season_anomaly, season_normal))

\* Lines 228-242: the anomaly is taken when the seasonal normal is positive
\* and is the integer 0, with the percentage, otherwise.
Summary(season_precip, season_normal) ==
    IF num_gt(season_normal, py_int(0))
    THEN SummaryOfAnomaly(season_precip, season_normal,
                          num_sub(season_precip, season_normal))
    ELSE SummaryRow(season_precip, season_normal, py_int(0), py_int(0))

\* Lines 224-242: the seasonal summary row.
SeasonalRow(results) ==
    Summary(sum(Column(results, "Precipitation")), sum(Column(results, "Normal")))

\* Line 235, results.append: the monthly rows and the summary row.
WithSummary(results) == Append(results, SeasonalRow(results))

\* The dtype pandas gives a column of numbers: int64 when every value is a
\* Python integer, float64 otherwise.
dtype(results, field) ==
    IF \A k \in 1..Len(results) : results[k][field].type = "int" THEN "int64"
    ELSE "float64"

\* Line 244, pd.DataFrame(results): one row per dict, in order, the values
\* of each numeric column converted to the dtype of the column.
DataFrame(results) ==
    LET astype(field, k) == [type |-> dtype(results, field), val |-> results[k][field].val]
    IN  [k \in 1..Len(results) |->
            [Month |-> results[k].Month,
             Precipitation |-> astype("Precipitation", k),
             Normal |-> astype("Normal", k),
             AnomalyMm |-> astype("AnomalyMm", k),
             AnomalyPct |-> astype("AnomalyPct", k),
             Classification |-> results[k].Classification]]

\* Lines 189-244: the baseline statistics are computed unless they are
\* given, the current year is extracted, and the table is built from the
\* monthly rows and the summary row.
analyze_growing_season(stats_arg, collection, baseline_collection) ==
    DataFrame(WithSummary(MonthlyRows(
        GrowingSeason,
        extract_monthly_precipitation(collection, DefaultMonths),
        IF stats_arg.given THEN stats_arg.stats
        ELSE calculate_baseline_statistics(baseline_collection))))

\* Statistics a caller supplies: Python floats it wrote itself, and the
\* numpy scalars of an earlier call of calculate_baseline_statistics for
\* baseline years of 40.0 and 60.0 mm in turn.
SuppliedStats(month) ==
    [mean |-> Decimal(5004, 100), median |-> Decimal(50, 1), stdev |-> Decimal(15, 1),
     p10 |-> Decimal(20, 1), p25 |-> Decimal(40, 1), p75 |-> Decimal(60, 1),
     p90 |-> Decimal(80, 1), month_name |-> month_name(month)]

EarlierStats(month) ==
    [mean |-> np_float64(FromInt(50)), median |-> np_float64(FromInt(50)),
     stdev |-> np_float64(FromInt(10)), p10 |-> np_float64(FromInt(40)),
     p25 |-> np_float64(FromInt(40)), p75 |-> np_float64(FromInt(60)),
     p90 |-> np_float64(FromInt(60)), month_name |-> month_name(month)]

\* The baseline_stats a caller supplies: a dict for every month, one for
\* April and May only, and an empty dict.
SuppliedBaselines ==
    { [month \in Months |-> SuppliedStats(month)],
      [month \in Months |-> EarlierStats(month)],
      [month \in {4, 5} |-> SuppliedStats(month)],
      <<>> }

InitSeason ==
    /\ gs_pc = "start"
    /\ current_data \in PerMonth(CurrentValues)
    /\ \/ /\ baseline_stats = [given |-> FALSE, stats |-> <<>>]
          /\ baseline_data \in AprilAndRest(BaselineSeries)
       \/ /\ baseline_stats \in {[given |-> TRUE, stats |-> b] : b \in SuppliedBaselines}
          /\ baseline_data = <<>>
    /\ season_rows = <<>>
    /\ gsOthersIdle

AnalyzeGrowingSeason ==
    /\ gs_pc = "start"
    /\ season_rows' = analyze_growing_season(baseline_stats, current_data, baseline_data)
    /\ gs_pc' = "done"
    /\ UNCHANGED <<baseline_stats, current_data, baseline_data>>
    /\ UNCHANGED gsOthers

NextSeason == AnalyzeGrowingSeason

SpecSeason == InitSeason /\ [][NextSeason]_vars

MonthlyPart == SubSeq(season_rows, 1, Len(season_rows) - 1)
TotalRow == season_rows[Len(season_rows)]
AllCurrentMissing == \A m \in Months : current_data[m] = <<>>

\* The number x is zero (0, 0.0 or -0.0).
IsZero(x) == x.val = Zero

\* C8: analyze_growing_season returns exactly seven monthly rows, April to
\* October in month order, followed by exactly one SEASONAL TOTAL row, for
\* every baseline_stats argument.
C8_SevenRowsPlusTotal ==
    gs_pc = "done" =>
        /\ Len(season_rows) = Len(GrowingSeason) + 1
        /\ \A k \in 1..Len(GrowingSeason) :
             season_rows[k].Month = month_name(GrowingSeason[k])
        /\ TotalRow.Month = "SEASONAL TOTAL"

\* C9 (as stated): when every month is missing current data, every monthly
\* row is "No Data" with Precipitation, Normal, Anomaly mm and Anomaly % all
\* zero, and the seasonal row has precipitation 0 and normal 0.
C9_AsStated ==
    (gs_pc = "done" /\ AllCurrentMissing) =>
        /\ \A k \in 1..Len(MonthlyPart) :
             /\ MonthlyPart[k].Classification = "No Data"
             /\ IsZero(MonthlyPart[k].Precipitation)
             /\ IsZero(MonthlyPart[k].Normal)
             /\ IsZero(MonthlyPart[k].AnomalyMm)
             /\ IsZero(MonthlyPart[k].AnomalyPct)
        /\ IsZero(TotalRow.Precipitation)
        /\ IsZero(TotalRow.Normal)

\* The baseline the call of the current state used.
UsedBaseline ==
    IF baseline_stats.given THEN baseline_stats.stats
    ELSE calculate_baseline_statistics(baseline_data)

MonthOfName(name) == CHOOSE m \in Months : month_name(m) = name

\* C9 (amended): when every month is missing current data, every monthly
\* row is "No Data" with Precipitation, Anomaly mm and Anomaly % zero, while
\* Normal is the month's baseline mean rounded to one decimal when that mean
\* is positive and zero otherwise; the seasonal row has precipitation 0 and
\* normal 0.
C9_NoDataRows ==
    (gs_pc = "done" /\ AllCurrentMissing) =>
        /\ \A k \in 1..Len(MonthlyPart) :
             LET baseline_mean == UsedBaseline[MonthOfName(MonthlyPart[k].Month)].mean IN
             /\ MonthlyPart[k].Classification = "No Data"
             /\ IsZero(MonthlyPart[k].Precipitation)
             /\ IsZero(MonthlyPart[k].AnomalyMm)
             /\ IsZero(MonthlyPart[k].AnomalyPct)
             /\ num_gt(baseline_mean, py_int(0)) =>
                    MonthlyPart[k].Normal.val = round1(baseline_mean).val
             /\ ~num_gt(baseline_mean, py_int(0)) => IsZero(MonthlyPart[k].Normal)
        /\ IsZero(TotalRow.Precipitation)
        /\ IsZero(TotalRow.Normal)

\* No month has current data; the baseline mean is 50.0 in April and there
\* are no baseline values from May on: the April row keeps Normal 50.0, the
\* May row has 0, the seasonal normal is 0.
C9_Witness ==
    /\ gs_pc = "done"
    /\ AllCurrentMissing
    /\ Len(season_rows) = 8
    /\ season_rows[1].Classification = "No Data"
    /\ season_rows[1].Normal.val = FromInt(50)
    /\ IsZero(season_rows[2].Normal)
    /\ IsZero(TotalRow.Normal)

\* The monthly rows the seasonal sums run over.
UsableRows == SelectSeq(MonthlyPart, LAMBDA r : r.Classification # "No Data")

\* The sum of a column of the usable rows, added from the first row on.
Total(field) == sum([k \in 1..Len(UsableRows) |-> UsableRows[k][field]])

\* C26: in the SEASONAL TOTAL row the precipitation is the sum of the
\* Precipitation of the monthly rows that are not "No Data", the normal the
\* sum of their Normal, the anomaly precipitation minus normal, the percent
\* anomaly 100 * anomaly / normal when normal > 0 and 0 otherwise (each to
\* one decimal), and the classification that of the seasonal classifier for
\* this percent anomaly, "Normal Season" when no month is usable.
C26_SeasonalTotal ==
    gs_pc = "done" =>
        LET precip == Total("Precipitation")
            normal == Total("Normal")
            anomaly == num_sub(precip, normal)
            percent == IF num_gt(normal, py_int(0))
                       THEN num_truediv(num_mul(py_int(100), anomaly), normal)
                       ELSE py_int(0)
        IN  /\ TotalRow.Precipitation.val = round1(precip).val
            /\ TotalRow.Normal.val = round1(normal).val
            /\ TotalRow.AnomalyMm.val = round1(anomaly).val
            /\ TotalRow.AnomalyPct.val = round1(percent).val
            /\ TotalRow.Classification = classify_seasonal_anomaly(percent)
            /\ UsableRows = <<>> => TotalRow.Classification = "Normal Season"

\* C28: a monthly row is "No Data", with precipitation 0 and left out of
\* the seasonal sums, exactly when the current precipitation of its month
\* is absent; a month whose current precipitation is present is classified
\* by classify_precipitation_anomaly and reported with its precipitation,
\* whatever its baseline statistics are.
C28_NoDataIffAbsent ==
    gs_pc = "done" =>
        \A k \in 1..Len(MonthlyPart) :
            LET row == MonthlyPart[k]
                month == MonthOfName(row.Month)
                current_precip == current_data[month]
            IN  /\ (row.Classification = "No Data") <=> (current_precip = <<>>)
                /\ current_precip = <<>> => IsZero(row.Precipitation)
                /\ current_precip # <<>> =>
                      /\ row.Precipitation.val = round1(current_precip[1]).val
                      /\ row.Classification =
                             classify_precipitation_anomaly(current_precip[1],
                                                            UsedBaseline[month])

(***************************************************************************)
(*             fix_embeddings.py: get_regional_reference                   *)
(*                                                                         *)
(* The remote platform decides the number of samples of each attempt and   *)
(* the column means it returns.  A mean is a record with a kind: "num" (a   *)
(* finite number v), "nan" and "inf" (the non-finite floats), "none"        *)
(* (None), "str" and "list" (values float() rejects with a ValueError and   *)
(* a TypeError).  An element of an embedding is of kind "num", "nan" or     *)
(* "inf".                                                                   *)
(***************************************************************************)
EmbeddingDim == 64

\* Line 106: the radii tried, in order.
Radii(args) == <<args.radius_km, args.radius_km * 2, args.max_radius_km>>

Accepts_ge(actual_count) == actual_count >= 100

\* Line 134.
Accepts(actual_count) == actual_count > 100

\* Lines 146-152: None becomes 0.0; float(val) keeps a number, a NaN and an
\* infinity; a value it rejects with TypeError or ValueError becomes 0.0.
to_float(val) ==
    IF val.kind = "none" THEN [kind |-> "num", v |-> 0]
    ELSE IF val.kind \in {"num", "nan", "inf"} THEN val
    ELSE [kind |-> "num", v |-> 0]

\* Lines 144-154.
embedding_of(means) == [i \in 1..Len(means) |-> to_float(means[i])]

\* np.zeros(64)
zeros(n) == [i \in 1..n |-> [kind |-> "num", v |-> 0]]

SampleCounts == {0, 100, 101, 150}
RadiusChoices == {15, 30}
MaxRadiusChoices == {20, 50}
MeanResults ==
    { [i \in 1..EmbeddingDim |-> [kind |-> "num", v |-> 3]],
      [i \in 1..EmbeddingDim |->
          IF i = 1 THEN [kind |-> "none"]
          ELSE IF i = 2 THEN [kind |-> "str"]
          ELSE [kind |-> "num", v |-> 3]],
      [i \in 1..EmbeddingDim |->
          IF i = 1 THEN [kind |-> "nan"]
          ELSE IF i = 2 THEN [kind |-> "inf"]
          ELSE IF i = 3 THEN [kind |-> "list"]
          ELSE [kind |-> "num", v |-> 3]] }

InitRegional ==
    /\ rr_pc = "loop"
    /\ rr_args \in [radius_km : RadiusChoices, max_radius_km : MaxRadiusChoices]
    /\ rr_attempts = <<>>
    /\ rr_result = <<>>
    /\ rrOthersIdle

\* Lines 106-160: one pass of the loop body: sample at the next radius and
\* return when the count is accepted.
SampleAttempt ==
    /\ rr_pc = "loop"
    /\ Len(rr_attempts) < Len(Radii(rr_args))
    /\ \E actual_count \in SampleCounts, means \in MeanResults :
         LET current_radius == Radii(rr_args)[Len(rr_attempts) + 1] IN
         /\ rr_attempts' = Append(rr_attempts,
                                  [radius |-> current_radius, count |-> actual_count])
         /\ IF Accepts(actual_count)
            THEN /\ rr_result' = [embedding |-> embedding_of(means),
                                  sample_count |-> actual_count,
                                  actual_radius |-> current_radius]
                 /\ rr_pc' = "done"
            ELSE UNCHANGED <<rr_result, rr_pc>>
    /\ UNCHANGED rr_args
    /\ UNCHANGED rrOthers

\* Lines 162-167: the loop ended without an accepted attempt.
RegionalFallback ==
    /\ rr_pc = "loop"
    /\ Len(rr_attempts) = Len(Radii(rr_args))
    /\ rr_result' = [embedding |-> zeros(EmbeddingDim),
                     sample_count |-> 0,
                     actual_radius |-> rr_args.max_radius_km]
    /\ rr_pc' = "done"
    /\ UNCHANGED <<rr_args, rr_attempts>>
    /\ UNCHANGED rrOthers

NextRegional == SampleAttempt \/ RegionalFallback

SpecRegional == InitRegional /\ [][NextRegional]_vars

LastAttempt == rr_attempts[Len(rr_attempts)]

\* C10: the radii radius_km, 2 * radius_km, max_radius_km are tried in that
\* order, at most three times; the call returns at the first attempt with
\* more than 100 samples (exactly 100 is rejected) with that attempt's count
\* and radius, and after three rejected attempts it returns a 64-element
\* zero vector, sample_count 0 and actual_radius max_radius_km.
C10_RadiusRetry ==
    /\ Len(rr_attempts) <= 3
    /\ \A k \in 1..Len(rr_attempts) :
         /\ k = 1 => rr_attempts[k].radius = rr_args.radius_km
         /\ k = 2 => rr_attempts[k].radius = 2 * rr_args.radius_km
         /\ k = 3 => rr_attempts[k].radius = rr_args.max_radius_km
         /\ k < Len(rr_attempts) => rr_attempts[k].count <= 100
    /\ (rr_pc = "loop" /\ Len(rr_attempts) > 0) => LastAttempt.count <= 100
    /\ rr_pc = "done" =>
         IF LastAttempt.count > 100
         THEN /\ rr_result.sample_count = LastAttempt.count
              /\ rr_result.actual_radius = LastAttempt.radius
              /\ Len(rr_result.embedding) = 64
         ELSE /\ Len(rr_attempts) = 3
              /\ rr_result.embedding = [i \in 1..64 |-> [kind |-> "num", v |-> 0]]
              /\ rr_result.sample_count = 0
              /\ rr_result.actual_radius = rr_args.max_radius_km
    /\ (rr_pc = "done" /\ Len(rr_attempts) = 3 /\ rr_attempts[3].count = 150) =>
         /\ rr_result.sample_count = 150
         /\ rr_result.actual_radius = rr_args.max_radius_km

C10_Witness ==
    /\ rr_pc = "done"
    /\ Len(rr_attempts) = 3
    /\ rr_attempts[2].count = 100
    /\ rr_attempts[3].count = 150
    /\ rr_result.sample_count = 150
    /\ rr_result.actual_radius = rr_args.max_radius_km

\* C24: the radii attempted never decrease, and no attempted radius, hence
\* no returned actual_radius, exceeds max_radius_km.
C24_RadiusEnlargedWithinMax ==
    /\ \A k \in 1..Len(rr_attempts) :
          /\ k > 1 => rr_attempts[k].radius >= rr_attempts[k - 1].radius
          /\ rr_attempts[k].radius <= rr_args.max_radius_km
    /\ rr_pc = "done" => rr_result.actual_radius <= rr_args.max_radius_km

(***************************************************************************)
(*                  fix_embeddings.py: get_embeddings                      *)
(*                                                                         *)
(* A value of the dict returned by stats.getInfo() is a record with a      *)
(* kind: "missing" (the key is absent), "none" (null), "str" (a string     *)
(* that is not a number), "list" (a value float() and int() reject with a  *)
(* TypeError), "num" (a finite number v), "nan" and "inf" (the two         *)
(* non-finite floats).  A float of the result is "num", "nan" or "inf".    *)
(***************************************************************************)
Missing == [kind |-> "missing"]
NoneValue == [kind |-> "none"]
Num(v) == [kind |-> "num", v |-> v]

\* result.get(key, default)
get(entry, default) == IF entry.kind = "missing" THEN default ELSE entry

\* float(val) of Python: the float, or the error raised
float(val) ==
    CASE val.kind \in {"num", "nan", "inf"} -> [raised |-> FALSE, value |-> val]
      [] val.kind = "str" -> [raised |-> TRUE, error |-> "ValueError"]
      [] OTHER -> [raised |-> TRUE, error |-> "TypeError"]

\* int(val) of Python: the integer, or the error raised
int(val) ==
    CASE val.kind = "num" -> [raised |-> FALSE, value |-> val.v]
      [] val.kind \in {"str", "nan"} -> [raised |-> TRUE, error |-> "ValueError"]
      [] val.kind = "inf" -> [raised |-> TRUE, error |-> "OverflowError"]
      [] OTHER -> [raised |-> TRUE, error |-> "TypeError"]

\* the errors the two try blocks of get_embeddings catch
Caught == {"TypeError", "ValueError"}

\* one pass of the loop over the 64 bands: the value appended
embedding_value(entry) ==
    LET val == get(entry, NoneValue)
    IN  IF val.kind = "none" THEN Num(0)
        ELSE IF ~float(val).raised THEN float(val).value
        ELSE Num(0)    \* float() raises nothing but the errors caught

\* the pixel count with type safety: the count, or the error that escapes
pixel_count_of(entry) ==
    LET pixel_count == get(entry, Num(0))
    IN  IF pixel_count.kind # "none"
        THEN IF ~int(pixel_count).raised
             THEN [raised |-> FALSE, value |-> int(pixel_count).value]
             ELSE IF int(pixel_count).error \in Caught
             THEN [raised |-> FALSE, value |-> 0]
             ELSE int(pixel_count)
        ELSE [raised |-> FALSE, value |-> 0]

\* get_embeddings, from result = stats.getInfo() on
get_embeddings(result, year) ==
    LET embedding == [i \in 1..EmbeddingDim |-> embedding_value(result.means[i])]
        pixel_count == pixel_count_of(result.count)
    IN  IF pixel_count.raised
        THEN [raised |-> TRUE, error |-> pixel_count.error]
        ELSE [raised |-> FALSE, embedding |-> embedding,
              pixel_count |-> pixel_count.value, year |-> year]

(***************************************************************************)
(* The reduction results explored: the bands VaryBands apart from the last  *)
(* take every kind of value, the others hold a number; the count takes      *)
(* every kind of value.                                                     *)
(***************************************************************************)
VaryBands == 2
BandValues ==
    {Missing, NoneValue, [kind |-> "str"], [kind |-> "list"], Num(-5), Num(3),
     [kind |-> "nan"], [kind |-> "inf"]}
CountValues ==
    {Missing, NoneValue, [kind |-> "str"], [kind |-> "list"], Num(0), Num(7),
     Num(-3), [kind |-> "nan"], [kind |-> "inf"]}
ReductionResults ==
    {[means |-> [i \in 1..EmbeddingDim |->
                    IF i <= VaryBands THEN m[i] ELSE Num(i)],
      count |-> c] : m \in [1..VaryBands -> BandValues], c \in CountValues}

InitEmbeddings ==
    /\ ge_pc = "call"
    /\ ge_stats \in ReductionResults
    /\ ge_result = <<>>
    /\ geOthersIdle

GetEmbeddings ==
    /\ ge_pc = "call"
    /\ \E year \in {2020, 2024} :
          ge_result' = get_embeddings(ge_stats, year)
    /\ ge_pc' = "done"
    /\ UNCHANGED <<ge_stats, geOthers>>

NextEmbeddings == GetEmbeddings

SpecEmbeddings == InitEmbeddings /\ [][NextEmbeddings]_vars

NonNumeric(entry) == entry.kind \in {"missing", "none", "str", "list"}

\* C11: for any reduction result get_embeddings returns without raising;
\* the embedding has exactly 64 finite values, every missing or non-numeric
\* band value is replaced by 0.0, and pixel_count is a non-negative integer
\* that is 0 when the count is absent or non-numeric.
C11_TypeSafeEmbedding ==
    ge_pc = "done" =>
        /\ ~ge_result.raised
        /\ Len(ge_result.embedding) = 64
        /\ \A i \in 1..64 :
              /\ ge_result.embedding[i].kind = "num"
              /\ NonNumeric(ge_stats.means[i]) => ge_result.embedding[i] = Num(0)
        /\ ge_result.pixel_count \in Nat
        /\ NonNumeric(ge_stats.count) => ge_result.pixel_count = 0

(***************************************************************************)
(*                  fix_embeddings.py: the patch script                    *)
(*                                                                         *)
(* fixed_source keeps its first line, the lines that hold a marker string   *)
(* and its end: the text ends with a line terminator.                       *)
(***************************************************************************)
NotebookPath == "Reclamation_Analysis_AEFv2.ipynb"

fixed_source ==
    <<"# Load AEF dataset", NL,
      "def get_embeddings(geometry, year, scale=10):", NL,
      "        maxPixels=1e10,  # Increased from 1e8 to handle large fields", NL,
      "            embedding_values.append(0.0)  # Use 0.0 instead of np.nan to avoid type issues", NL>>

\* fixed_source.split('\n') with '\n' added to each line except the last one
SourceLinesExceptLast(text) ==
    [k \in 1..Len(split(text)) |->
        IF k < Len(split(text)) THEN Append(split(text)[k], NL) ELSE split(text)[k]]

\* The test of the loop of the script (mutant: the def marker alone).
IsEmbeddingsCell_def_only(cell) ==
    /\ cell.cell_type = "code"
    /\ Contains(cell.source, "def get_embeddings(geometry, year, scale=10):")

IsEmbeddingsCell(cell) ==
    /\ cell.cell_type = "code"
    /\ Contains(cell.source, "def get_embeddings(geometry, year, scale=10):")
    /\ Contains(cell.source, "maxPixels=1e8")

EmbeddingsCells(cells) == {i \in 1..Len(cells) : IsEmbeddingsCell(cells[i])}

Min(S) == CHOOSE x \in S : \A y \in S : x <= y

\* The loop of the script (mutant: without the break, every matching cell
\* is patched).
fix_embeddings_no_break(cells) ==
    [cells |-> [i \in 1..Len(cells) |->
                   IF i \in EmbeddingsCells(cells)
                   THEN [cells[i] EXCEPT !.source = SourceLinesExceptLast(fixed_source)]
                   ELSE cells[i]],
     printed |-> <<>>]

\* The loop of the script: the first matching code cell gets the fixed
\* source, the two messages carry its index, and the loop breaks.
fix_embeddings(cells) ==
    IF EmbeddingsCells(cells) = {} THEN [cells |-> cells, printed |-> <<>>]
    ELSE LET i == Min(EmbeddingsCells(cells)) IN
         [cells |-> [cells EXCEPT ![i].source = SourceLinesExceptLast(fixed_source)],
          printed |-> <<[msg |-> "Found get_embeddings function in cell", cell_idx |-> i - 1],
                        [msg |-> "Fixed the get_embeddings function in cell", cell_idx |-> i - 1]>>]

\* A printed line that carries no cell index.
Line(text) == [msg |-> text, cell_idx |-> -1]

SavedMessage == Line("Notebook has been fixed and saved!")

\* Lines 203-207: the lines printed after the saved message on every run.
ChangesMade ==
    <<Line(""),
      Line("Changes made:"),
      Line("1. Increased maxPixels from 1e8 to 1e10"),
      Line("2. Added bestEffort=True to handle large areas"),
      Line("3. Fixed data type handling to avoid 'isnan' errors"),
      Line("4. Added try/except blocks for robust type conversion")>>

EmbeddingSources ==
    { << <<"def get_embeddings(geometry, year, scale=10):", NL>>,
         <<"        maxPixels=1e8", NL>>,
         <<"        val = result.get(f'A{i:02d}_mean', np.nan)">> >>,
      << <<"def get_embeddings(geometry, year, scale=10):", NL>>,
         <<"        maxPixels=1e8">> >>,
      << <<"def get_embeddings(geometry, year, scale=10):">> >>,
      << <<"        maxPixels=1e8">> >> }

EmbeddingCells ==
    {[cell_type |-> "code", metadata |-> {"old"}, source |-> s,
      execution_count |-> 1, outputs |-> <<"out">>] : s \in EmbeddingSources}
    \cup
    {[cell_type |-> "markdown", metadata |-> {"old"}, source |-> s,
      execution_count |-> None, outputs |-> <<>>] :
        s \in { << <<"def get_embeddings(geometry, year, scale=10):", NL>>,
                   <<"        maxPixels=1e8">> >> }}

EmbeddingDocuments == UNION {[1..n -> EmbeddingCells] : n \in 0..MaxCells}

\* The notebook is on disk with one of the documents, or is not there.
InitEmbedFix ==
    /\ ef_files \in {[p \in {NotebookPath} |-> d] : d \in EmbeddingDocuments} \cup {<<>>}
    /\ ef_printed = <<>>
    /\ ef_writes = <<>>
    /\ ef_runs = 0
    /\ ef_exit = <<>>
    /\ efOthersIdle

\* One run of the script: load, patch the first matching cell, save, print.
FixEmbeddings ==
    /\ ef_runs < MaxRuns
    /\ NotebookPath \in DOMAIN ef_files
    /\ LET notebook_cells == ef_files[NotebookPath]
           fixed == fix_embeddings(notebook_cells)
       IN  /\ ef_files' = [ef_files EXCEPT ![NotebookPath] = fixed.cells]
           /\ ef_printed' = Append(fixed.printed, SavedMessage) \o ChangesMade
    /\ ef_writes' = Append(ef_writes, NotebookPath)
    /\ ef_runs' = ef_runs + 1
    /\ ef_exit' = <<0>>
    /\ UNCHANGED efOthers

\* One run of the script without the notebook: open() of lines 9-10 raises
\* FileNotFoundError, which is not handled; nothing is printed or written
\* and the interpreter exits with status 1.
FixEmbeddingsLoadFails ==
    /\ ef_runs < MaxRuns
    /\ NotebookPath \notin DOMAIN ef_files
    /\ ef_printed' = <<>>
    /\ ef_runs' = ef_runs + 1
    /\ ef_exit' = <<1>>
    /\ UNCHANGED <<ef_files, ef_writes>>
    /\ UNCHANGED efOthers

NextEmbedFix == FixEmbeddings \/ FixEmbeddingsLoadFails

SpecEmbedFix == InitEmbedFix /\ [][NextEmbedFix]_vars

\* The cells of the notebook on disk, none without the notebook.
EfCells == IF NotebookPath \in DOMAIN ef_files THEN ef_files[NotebookPath] ELSE <<>>

\* The code of a line: the line without its comment.
CodeOf(line) ==
    IF line = "            embedding_values.append(0.0)  # Use 0.0 instead of np.nan to avoid type issues"
    THEN "            embedding_values.append(0.0)"
    ELSE line

\* A not-a-number fallback: np.nan in the code of some line of the source.
HasNanFallback(source) ==
    \E k \in 1..Len(join(source)) : "np.nan" \in MarkersOf(CodeOf(join(source)[k]))

\* C12: on a document with a matching code cell, a run changes the source of
\* the first matching cell only; every other cell, and every cell's type,
\* metadata, execution count and outputs, is unchanged, and the new source
\* holds neither 'maxPixels=1e8' nor an np.nan fallback.
C12_OnlyFirstMatchPatched ==
    [][EmbeddingsCells(EfCells) # {} =>
          LET i == Min(EmbeddingsCells(EfCells)) IN
          /\ Len(EfCells') = Len(EfCells)
          /\ \A j \in 1..Len(EfCells) :
                /\ j # i => EfCells'[j] = EfCells[j]
                /\ EfCells'[j] = [EfCells[j] EXCEPT !.source = EfCells'[j].source]
          /\ EfCells'[i].source # EfCells[i].source
          /\ ~Contains(EfCells'[i].source, "maxPixels=1e8")
          /\ ~HasNanFallback(EfCells'[i].source)]_vars

\* A run has patched the first of two matching cells and left the second.
C12_Witness ==
    /\ ef_runs = 1
    /\ Len(EfCells) = 3
    /\ EfCells[2].source = SourceLinesExceptLast(fixed_source)
    /\ IsEmbeddingsCell(EfCells[3])
    /\ HasNanFallback(EfCells[3].source)

\* C13: every run on a notebook that is on disk writes the document back
\* to the path it was read from and ends normally; when no code cell
\* matches both markers, every cell is left unchanged, no error is reported
\* and the completion message is printed (with the closing lines of every
\* run); after a run on a document with a single matching cell no cell
\* matches, so a second run leaves the document as the first run wrote it.
C13_IdempotentSilentNoOp ==
    [][(NotebookPath \in DOMAIN ef_files) =>
         (/\ ef_writes' = Append(ef_writes, NotebookPath)
          /\ DOMAIN ef_files' = {NotebookPath}
          /\ ef_exit' = <<0>>
          /\ SavedMessage \in Range(ef_printed')
          /\ EmbeddingsCells(EfCells) = {} =>
                /\ EfCells' = EfCells
                /\ ef_printed' = <<SavedMessage>> \o ChangesMade
          /\ Cardinality(EmbeddingsCells(EfCells)) = 1 =>
                /\ EmbeddingsCells(EfCells') = {}
                /\ fix_embeddings(EfCells').cells = EfCells')]_vars

\* The second run after a successful patch: it found no match, printed the
\* completion message and the closing lines alone, wrote the document again
\* and ended normally.
C13_Witness ==
    /\ ef_runs = 2
    /\ ef_writes = <<NotebookPath, NotebookPath>>
    /\ ef_exit = <<0>>
    /\ ef_printed = <<SavedMessage>> \o ChangesMade
    /\ \E i \in 1..Len(EfCells) :
          EfCells[i].source = SourceLinesExceptLast(fixed_source)

(***************************************************************************)
(*       fix_notebook_comprehensive.py: the sources it writes               *)
(***************************************************************************)
FixedTexts ==
    {imports_cell_code, widget_setup_code, file_upload_widgets_code,
     loading_cell_code, alignment_cell_code, clipping_cell_code}

\* The cells of the document that the utility wrote: the sources that are
\* not among those the document started with.
WrittenCells(cells) ==
    {i \in 1..Len(cells) : cells[i].source \notin {c.source : c \in OldCells}}

\* C14: every source written by the comprehensive utility is a fixed text
\* split into lines with a terminator on every line except the last, so
\* that its concatenation is the fixed text exactly.
C14_SameLineConvention ==
    \A i \in WrittenCells(notebook) :
        \E text \in FixedTexts :
            /\ notebook[i].source = SourceLinesExceptLast(text)
            /\ join(notebook[i].source) = text

\* The document as the insertion loop finds it: after the imports loop.
AfterImports(cells) ==
    ReplaceFirst([cells |-> cells, fixes |-> <<>>], "imports", imports_cell_code,
                 "Updated imports cell for environment compatibility").cells

FixText(fix) ==
    CASE fix = "upload" -> file_upload_widgets_code
      [] fix = "loading" -> loading_cell_code
      [] fix = "alignment" -> alignment_cell_code
      [] fix = "clipping" -> clipping_cell_code

\* new is the cell old, as it was or with the source one of the later
\* loops gave it.
SameCell(old, new) ==
    /\ new = [old EXCEPT !.source = new.source]
    /\ \/ new.source = old.source
       \/ \E fix \in {"upload", "loading", "alignment", "clipping"} :
             /\ Matches(fix, 1, old)
             /\ new.source = SourceLines(FixText(fix))

\* new is the cell old apart from its source.
SameButSource(old, new) == new = [old EXCEPT !.source = new.source]

\* C15 (as stated): in one run on a readable document, if a code cell of
\* the document contains 'aoi_upload = widgets.FileUpload', exactly one new
\* code cell (empty metadata, execution_count None, no outputs, the
\* configuration-widget source) is inserted immediately before the first
\* such cell, every other cell keeps its relative order, and the
\* upload-widgets replacement is applied to the original upload cell; if
\* there is no such cell nothing is inserted and the cell count is
\* unchanged.
C15_AsStated ==
    [][nb_readable =>
       LET i == FirstMatch(notebook, "upload")
       IN  IF i # 0
           THEN /\ Len(notebook') = Len(notebook) + 1
                /\ notebook'[i] =
                      [cell_type |-> "code", metadata |-> {},
                       source |-> SourceLines(widget_setup_code),
                       execution_count |-> None, outputs |-> <<>>]
                /\ \A j \in 1..(i - 1) : SameButSource(notebook[j], notebook'[j])
                /\ \A j \in i..Len(notebook) : SameButSource(notebook[j], notebook'[j + 1])
                /\ notebook'[i + 1].source = SourceLines(file_upload_widgets_code)
           ELSE /\ Len(notebook') = Len(notebook)
                /\ \A j \in 1..Len(notebook) : SameButSource(notebook[j], notebook'[j])]_vars

\* C15 (amended): in one run on a readable document, if a code cell contains 'aoi_upload = widgets.FileUpload'
\* when the insertion loop starts, exactly one new code cell (empty
\* metadata, execution_count None, no outputs, the configuration-widget
\* source) is inserted immediately before the first such cell, every other
\* cell keeps its relative order, and the upload-widgets replacement is
\* applied to the original upload cell, not to the inserted one; if there
\* is no such cell nothing is inserted and the cell count is unchanged.
C15_InsertBeforeUpload ==
    [][nb_readable =>
       LET before == AfterImports(notebook)
           i == FirstMatch(before, "upload")
       IN  IF i # 0
           THEN /\ Len(notebook') = Len(notebook) + 1
                /\ notebook'[i] =
                      [cell_type |-> "code", metadata |-> {},
                       source |-> SourceLines(widget_setup_code),
                       execution_count |-> None, outputs |-> <<>>]
                /\ \A j \in 1..(i - 1) : SameCell(before[j], notebook'[j])
                /\ \A j \in i..Len(before) : SameCell(before[j], notebook'[j + 1])
                /\ notebook'[i + 1].source = SourceLines(file_upload_widgets_code)
                /\ notebook'[i + 1] = [before[i] EXCEPT !.source = notebook'[i + 1].source]
           ELSE /\ Len(notebook') = Len(notebook)
                /\ \A j \in 1..Len(before) : SameCell(before[j], notebook'[j])]_vars

\* After one run: the inserted cell sits between a cell that was there
\* before and the original upload cell, which holds the upload-widgets
\* source and its old metadata.
C15_Witness ==
    /\ runs = 1
    /\ Len(notebook) = 4
    /\ notebook[1].source = SourceLines(loading_cell_code)
    /\ notebook[2].source = SourceLines(widget_setup_code)
    /\ notebook[2].metadata = {}
    /\ notebook[3].source = SourceLines(file_upload_widgets_code)
    /\ notebook[3].metadata = {"old"}
    /\ notebook[4].cell_type = "markdown"

\* The six loops of fix_notebook in their order: the pattern each looks
\* for and the description it records.
LoopPattern == <<"imports", "upload", "upload", "loading", "alignment", "clipping">>

FixOrder ==
    <<"Updated imports cell for environment compatibility",
      "Added skip_alignment widget setup",
      "Updated file upload widgets",
      "Fixed loading cell for both environments",
      "Updated alignment cell",
      "Updated clipping cell">>

\* The cells as the loop after the first k loops finds them.
RECURSIVE CellsAfterLoops(_, _)
CellsAfterLoops(cells, k) ==
    IF k = 0 THEN cells
    ELSE LET st == [cells |-> CellsAfterLoops(cells, k - 1), fixes |-> <<>>] IN
         IF k = 2 THEN InsertWidgetSetup(st).cells
         ELSE IF k = 1
              THEN ReplaceFirst(st, "imports", imports_cell_code, FixOrder[1]).cells
              ELSE ReplaceFirst(st, LoopPattern[k], FixText(LoopPattern[k]),
                                FixOrder[k]).cells

\* The descriptions, in the fixed order, of the loops among the first k
\* that found their pattern.
RECURSIVE FoundFixes(_, _)
FoundFixes(cells, k) ==
    IF k = 0 THEN <<>>
    ELSE FoundFixes(cells, k - 1) \o
         (IF FirstMatch(CellsAfterLoops(cells, k - 1), LoopPattern[k]) # 0
          THEN <<FixOrder[k]>> ELSE <<>>)

\* C16: a run on a readable document prints, in the fixed order and each at
\* most once, exactly the descriptions of the fixes whose pattern was found
\* when its loop ran; whatever the number of fixes, no error is raised, the
\* document is saved and the process exits with status 0.
C16_FixListAndExitStatus ==
    [][nb_readable =>
          /\ fixes_applied' = FoundFixes(notebook, 6)
          /\ nb_writes' = Append(nb_writes, ComprehensivePath)
          /\ exit_status' = <<0>>]_vars

\* A run that found the imports and clipping patterns only, and a run
\* that found none: both saved and exited with status 0.
C16_Witness ==
    /\ exit_status = <<0>>
    /\ \/ /\ runs = 1
          /\ fixes_applied = <<FixOrder[1], FixOrder[6]>>
          /\ nb_writes = <<ComprehensivePath>>
       \/ /\ runs = 2
          /\ fixes_applied = <<>>
          /\ nb_writes = <<ComprehensivePath, ComprehensivePath>>

\* The marker strings of each replacement fix.
MarkerStrings(fix) ==
    CASE fix = "imports" -> {"import geopandas", "import rasterio"}
      [] fix = "upload" -> {"aoi_upload = widgets.FileUpload"}
      [] fix = "loading" -> {"aoi_gdf = None", "original_ndvi_datasets"}
      [] fix = "alignment" -> {"aligned_ndvi_arrays = []", "target_crs = None"}
      [] fix = "clipping" -> {"clipped_ndvi_data_and_transforms = []", "rasterio.mask"}

\* The code cells of a document whose concatenated source holds every
\* marker string of the fix (for the imports fix, at an index below 10).
Candidates(cells, fix) ==
    {i \in 1..Len(cells) :
        /\ cells[i].cell_type = "code"
        /\ fix = "imports" => i - 1 < ImportsScanLimit
        /\ LET found == UNION {MarkersOf(line) : line \in Range(join(cells[i].source))}
           IN  MarkerStrings(fix) \subseteq found}

ReplacementLoops == {1, 3, 4, 5, 6}

TextOfLoop(k) == IF k = 1 THEN imports_cell_code ELSE FixText(LoopPattern[k])

NonCode(cells) == SelectSeq(cells, LAMBDA c : c.cell_type # "code")

\* The k-th loop of fix_notebook applied to a document.
LoopStep(cells, k) ==
    LET st == [cells |-> cells, fixes |-> <<>>] IN
    IF k = 2 THEN InsertWidgetSetup(st).cells
    ELSE ReplaceFirst(st, LoopPattern[k], TextOfLoop(k), FixOrder[k]).cells

\* C23: each of the five replacement loops, on the document as the loops
\* before it left it, gives the fixed source to the first code cell that
\* holds all the markers of the fix (the imports fix only below index 10)
\* and changes nothing else of that cell nor any other cell; the insertion
\* loop only adds a cell; so the non-code cells of the document are the
\* same after the run, and without an imports candidate no cell receives
\* the imports source.
C23_FirstMatchOnlyReplaced ==
    [][nb_readable =>
          LET d1 == LoopStep(notebook, 1)
              d2 == LoopStep(d1, 2)
              d3 == LoopStep(d2, 3)
              d4 == LoopStep(d3, 4)
              d5 == LoopStep(d4, 5)
              d6 == LoopStep(d5, 6)
              docs == <<notebook, d1, d2, d3, d4, d5, d6>>
          IN
          /\ \A k \in ReplacementLoops :
                LET before == docs[k]
                    after == docs[k + 1]
                    targets == Candidates(before, LoopPattern[k])
                IN  /\ Len(after) = Len(before)
                    /\ \A i \in 1..Len(before) :
                          IF targets # {} /\ i = Min(targets)
                          THEN after[i] =
                                 [before[i] EXCEPT !.source = SourceLines(TextOfLoop(k))]
                          ELSE after[i] = before[i]
          /\ \/ d2 = d1
             \/ \E i \in 1..Len(d1) : d2 = InsertAt(d1, i, new_cell)
          /\ notebook' = d6
          /\ NonCode(notebook') = NonCode(notebook)
          /\ Candidates(notebook, "imports") = {} =>
                \A i \in 1..Len(notebook') :
                    notebook'[i].source = SourceLines(imports_cell_code) =>
                        \E j \in 1..Len(notebook) : notebook[j] = notebook'[i]]_vars

\* After one run on a document with imports cells at indices 9 and 10: the
\* first has the fixed imports source, the second, beyond the scan limit
\* and not the first match, is as it was.
C23_Witness ==
    /\ runs = 1
    /\ Len(notebook) = PadCells + 3
    /\ notebook[PadCells + 2].source = SourceLines(imports_cell_code)
    /\ notebook[PadCells + 2].metadata = {"old"}
    /\ notebook[PadCells + 3].source = << <<"import geopandas", NL>>, <<"import rasterio">> >>

(***************************************************************************)
(*       precipitation_analysis.py: extract_monthly_precipitation          *)
(*                      followed one month at a time                       *)
(***************************************************************************)
MonthImages ==
    {<<>>, <<py_float(Zero)>>, <<Decimal(1234, 100)>>, <<Decimal(1234, 100), Decimal(70, 1)>>}

MonthsArguments ==
    {DefaultMonths} \cup
    {[given |-> TRUE, list |-> l] : l \in {<<>>, <<5>>, <<4, 5>>, <<10, 4>>, <<5, 4, 5>>}}

InitExtract ==
    /\ ex_pc = "loop"
    /\ ex_collection \in PerMonth(MonthImages)
    /\ ex_months \in MonthsArguments
    /\ ex_i = 0
    /\ ex_data = <<>>
    /\ ex_remote = <<>>
    /\ ex_warnings = <<>>
    /\ exOthersIdle

\* monthly_data[month] = record
SetItem(d, key, value) ==
    [k \in DOMAIN d \cup {key} |-> IF k = key THEN value ELSE d[k]]

\* One pass of the loop, for a month with at least one image.
ExtractMonthWithImage ==
    /\ ex_pc = "loop"
    /\ ex_i < Len(requested_months(ex_months))
    /\ LET month == requested_months(ex_months)[ex_i + 1] IN
          /\ Len(ex_collection[month]) > 0
          /\ ex_data' = SetItem(ex_data, month, extract_month(ex_collection, month).record)
          /\ ex_remote' = ex_remote \o extract_month(ex_collection, month).remote
          /\ ex_warnings' = ex_warnings \o extract_month(ex_collection, month).warnings
    /\ ex_i' = ex_i + 1
    /\ UNCHANGED <<ex_pc, ex_collection, ex_months, exOthers>>

\* One pass of the loop, for a month without an image.
ExtractMonthNoImage ==
    /\ ex_pc = "loop"
    /\ ex_i < Len(requested_months(ex_months))
    /\ LET month == requested_months(ex_months)[ex_i + 1] IN
          /\ Len(ex_collection[month]) = 0
          /\ ex_data' = SetItem(ex_data, month, extract_month(ex_collection, month).record)
          /\ ex_remote' = ex_remote \o extract_month(ex_collection, month).remote
          /\ ex_warnings' = ex_warnings \o extract_month(ex_collection, month).warnings
    /\ ex_i' = ex_i + 1
    /\ UNCHANGED <<ex_pc, ex_collection, ex_months, exOthers>>

\* return monthly_data
ExtractReturn ==
    /\ ex_pc = "loop"
    /\ ex_i = Len(requested_months(ex_months))
    /\ ex_pc' = "done"
    /\ UNCHANGED <<ex_collection, ex_months, ex_i, ex_data, ex_remote,
                   ex_warnings, exOthers>>

NextExtract == ExtractMonthWithImage \/ ExtractMonthNoImage \/ ExtractReturn

SpecExtract == InitExtract /\ [][NextExtract]_vars

Reduced(month) ==
    \E k \in 1..Len(ex_remote) : ex_remote[k] = [op |-> "reduceRegion", month |-> month]

\* C18: extract_monthly_precipitation returns exactly one record per
\* requested month (April to October by default); a month without an image
\* has precipitation_mm None, not 0, and no reduction is made for it; a
\* month with an image has the reduction result of its first image.
C18_OneRecordPerMonth ==
    ex_pc = "done" =>
        /\ DOMAIN ex_data = Range(IF ex_months.given THEN ex_months.list
                                  ELSE <<4, 5, 6, 7, 8, 9, 10>>)
        /\ ex_data = extract_monthly_precipitation(ex_collection, ex_months)
        /\ \A month \in DOMAIN ex_data :
              IF ex_collection[month] = <<>>
              THEN /\ ex_data[month].precipitation_mm = <<>>
                   /\ ~Reduced(month)
              ELSE /\ ex_data[month].precipitation_mm = <<ex_collection[month][1]>>
                   /\ Reduced(month)

\* Returned for months [4, 5]: April has no image and was not reduced, May
\* has two images and holds the result of the first.
C18_Witness ==
    /\ ex_pc = "done"
    /\ ex_months = [given |-> TRUE, list |-> <<4, 5>>]
    /\ ex_collection[4] = <<>>
    /\ ex_collection[5] = <<Decimal(1234, 100), Decimal(70, 1)>>
    /\ ex_data[4].precipitation_mm = <<>>
    /\ ex_data[5].precipitation_mm = <<Decimal(1234, 100)>>
    /\ ex_remote = <<[op |-> "size", month |-> 4], [op |-> "size", month |-> 5],
                     [op |-> "reduceRegion", month |-> 5]>>
    /\ ex_warnings = <<4>>

(***************************************************************************)
(*       integrate_precipitation.py: the summary table of the figure       *)
(***************************************************************************)
Pink == "#ffcccc"
Blue == "#ccccff"
Green == "#ccffcc"

\* C19: in the summary table the precipitation cell of every row is pink
\* when the classification of the row is "Dry Season" or "Extremely Dry
\* Season", blue when it is "Wet Season" or "Extremely Wet Season", and
\* green for every other classification ("Normal Season" or empty).
C19_TableShading ==
    table # <<>> =>
        /\ Len(table) = Len(results_df.rows)
        /\ \A i \in 1..Len(table) :
              LET classification == results_df.rows[i]["precip_classification"] IN
              table[i].facecolor =
                  IF classification \in {"Dry Season", "Extremely Dry Season"} THEN Pink
                  ELSE IF classification \in {"Wet Season", "Extremely Wet Season"} THEN Blue
                  ELSE Green

\* The rows that received the context of their year and an adjusted
\* performance.
AdjustedRows ==
    IF ip_pc = "start" \/ ContextFile \notin files
       \/ "difference_in_differences" \notin results_df.columns
    THEN {}
    ELSE {i \in 1..Len(results_df.rows) :
            str(results_df.rows[i]["year"]) \in DOMAIN precip_data}

\* C27: for every row with an anomaly percentage a, the +0.05 dry-year
\* adjustment is applied exactly when the seasonal classifier labels a
\* "Dry Season" or "Extremely Dry Season", and the -0.03 wet-year
\* adjustment exactly when it labels a "Wet Season" or "Extremely Wet
\* Season".
C27_DryWetConsistent ==
    \A i \in AdjustedRows :
        LET row == results_df.rows[i]
            applied(factor) ==
                row["adjusted_performance"].val
                    = add(row["difference_in_differences"].val, factor.val)
            label == classify_seasonal_anomaly(row["precip_anomaly_pct"])
        IN  /\ applied(Decimal(5, 100))
                  <=> (label \in {"Dry Season", "Extremely Dry Season"})
            /\ applied(Decimal(-3, 100))
                  <=> (label \in {"Wet Season", "Extremely Wet Season"})

(***************************************************************************)
(*  The raster pipeline: loading_cell_code, alignment_cell_code and        *)
(*  clipping_cell_code of fix_notebook_comprehensive.py, run in order.     *)
(*                                                                         *)
(* An uploaded raster is a record: opens (memfile.open() succeeds), crs    *)
(* (None for a raster without a coordinate system), aligns (read or        *)
(* reprojection succeeds) and clips (the mask succeeds).  target_crs holds *)
(* the target grid: <<>> while target_crs or target_transform is None,     *)
(* which the code sets and tests together; a handle always has a           *)
(* transform, so the grid is undefined exactly when the CRS is None.       *)
(* The uploaded polygon is "none" (no upload), "bad" (read_file raises) or *)
(* a record with its crs and whether to_crs succeeds.  A handle, an array  *)
(* and a clipped item carry the position of their file among the uploads.  *)
(***************************************************************************)
MaxFiles == 2

RasterFiles ==
    {[opens |-> TRUE, crs |-> "A", aligns |-> TRUE, clips |-> TRUE],
     [opens |-> TRUE, crs |-> "B", aligns |-> TRUE, clips |-> TRUE],
     [opens |-> TRUE, crs |-> None, aligns |-> TRUE, clips |-> TRUE],
     [opens |-> FALSE, crs |-> "A", aligns |-> TRUE, clips |-> TRUE],
     [opens |-> TRUE, crs |-> "A", aligns |-> FALSE, clips |-> TRUE],
     [opens |-> TRUE, crs |-> "A", aligns |-> TRUE, clips |-> FALSE]}

PolygonFiles ==
    {[kind |-> "none"], [kind |-> "bad"],
     [kind |-> "gdf", crs |-> "A", reprojects |-> TRUE],
     [kind |-> "gdf", crs |-> "B", reprojects |-> TRUE],
     [kind |-> "gdf", crs |-> "B", reprojects |-> FALSE]}

PipelineInputs ==
    [aoi_upload : PolygonFiles,
     ndvi_uploads : UNION {[1..n -> RasterFiles] : n \in 0..MaxFiles},
     skip_alignment : BOOLEAN]

Message(text, item) == [msg |-> text, item |-> item]

MemFile(k) == [kind |-> "MemoryFile", file |-> k]
Handle(k) == [kind |-> "DatasetReader", file |-> k]

\* The target grid a handle gives: target_crs = dataset.crs, which may be
\* None, and target_transform = dataset.transform.
target_grid(dataset) == IF dataset.crs = None THEN <<>> ELSE <<dataset.crs>>

InitPipeline ==
    /\ rp_pc = "load_aoi"
    /\ rp_i = 0
    /\ rp_input \in PipelineInputs
    /\ aoi_gdf = <<>>
    /\ original_ndvi_datasets = <<>>
    /\ memfiles = <<>>
    /\ ndvi_datasets = <<>>
    /\ aligned_ndvi_arrays = <<>>
    /\ target_crs = <<>>
    /\ clipped_ndvi_data_and_transforms = <<>>
    /\ rp_open = {}
    /\ rp_printed = <<>>
    /\ rpOthersIdle

\* loading_cell_code, "# Load AOI polygon": the fiona MemoryFile of the
\* polygon is closed by its with block.
LoadAOI ==
    /\ rp_pc = "load_aoi"
    /\ LET aoi_file == rp_input.aoi_upload IN
       CASE aoi_file.kind = "none" ->
              /\ aoi_gdf' = aoi_gdf
              /\ rp_printed' = Append(rp_printed,
                    Message("No AOI file uploaded. Skipping AOI loading.", 0))
         [] aoi_file.kind = "bad" ->
              /\ aoi_gdf' = aoi_gdf
              /\ rp_printed' = Append(rp_printed, Message("Error loading AOI file", 0))
         [] OTHER ->
              /\ aoi_gdf' = <<[crs |-> aoi_file.crs, reprojects |-> aoi_file.reprojects]>>
              /\ rp_printed' = Append(rp_printed, Message("AOI polygon loaded successfully.", 0))
    /\ rp_pc' = "load_ndvi"
    /\ rp_i' = 0
    /\ UNCHANGED <<rp_input, original_ndvi_datasets, memfiles, ndvi_datasets,
                   aligned_ndvi_arrays, target_crs,
                   clipped_ndvi_data_and_transforms, rp_open, rpOthers>>

\* loading_cell_code, one pass of the loop over ndvi_files.  The handle and
\* its MemoryFile are appended together; when open() raises neither is
\* appended and the MemoryFile of line 117 is left open: nothing closes it.
LoadRaster ==
    /\ rp_pc = "load_ndvi"
    /\ rp_i < Len(rp_input.ndvi_uploads)
    /\ LET k == rp_i + 1
           file_data == rp_input.ndvi_uploads[k]
       IN  IF file_data.opens
           THEN /\ original_ndvi_datasets' =
                      Append(original_ndvi_datasets,
                             [kind |-> "DatasetReader", file |-> k,
                              crs |-> file_data.crs, aligns |-> file_data.aligns,
                              clips |-> file_data.clips])
                /\ memfiles' = Append(memfiles, MemFile(k))
                /\ rp_open' = rp_open \cup {MemFile(k), Handle(k)}
                /\ rp_printed' = Append(rp_printed, Message("NDVI raster loaded successfully.", k))
           ELSE /\ UNCHANGED <<original_ndvi_datasets, memfiles>>
                /\ rp_open' = rp_open \cup {MemFile(k)}
                /\ rp_printed' = Append(rp_printed, Message("Error loading NDVI file", k))
    /\ rp_i' = rp_i + 1
    /\ UNCHANGED <<rp_pc, rp_input, aoi_gdf, ndvi_datasets, aligned_ndvi_arrays,
                   target_crs, clipped_ndvi_data_and_transforms, rpOthers>>

\* loading_cell_code, from "ndvi_datasets = []" to the summary.
LoadingSummary ==
    /\ rp_pc = "load_ndvi"
    /\ rp_i = Len(rp_input.ndvi_uploads)
    /\ ndvi_datasets' = <<>>
    /\ rp_printed' = Append(rp_printed, Message("Summary", Len(original_ndvi_datasets)))
    /\ rp_pc' = "align_start"
    /\ rp_i' = 0
    /\ UNCHANGED <<rp_input, aoi_gdf, original_ndvi_datasets, memfiles,
                   aligned_ndvi_arrays, target_crs,
                   clipped_ndvi_data_and_transforms, rp_open, rpOthers>>

\* alignment_cell_code: no raster was loaded.
AlignNoRasters ==
    /\ rp_pc = "align_start"
    /\ original_ndvi_datasets = <<>>
    /\ aligned_ndvi_arrays' = <<>>
    /\ target_crs' = <<>>
    /\ ndvi_datasets' = original_ndvi_datasets
    /\ rp_printed' = Append(rp_printed,
          Message("No NDVI datasets loaded. Skipping reprojection and alignment.", 0))
    /\ rp_pc' = "clip_start"
    /\ UNCHANGED <<rp_i, rp_input, aoi_gdf, original_ndvi_datasets, memfiles,
                   clipped_ndvi_data_and_transforms, rp_open, rpOthers>>

\* alignment_cell_code: skip_alignment_widget.value is set.
AlignSkipped ==
    /\ rp_pc = "align_start"
    /\ original_ndvi_datasets # <<>>
    /\ rp_input.skip_alignment
    /\ aligned_ndvi_arrays' = <<>>
    /\ ndvi_datasets' = original_ndvi_datasets
    /\ target_crs' = target_grid(original_ndvi_datasets[1])
    /\ rp_printed' = Append(rp_printed,
          Message("Skipping reprojection and alignment as requested.", 0))
    /\ rp_pc' = "clip_start"
    /\ UNCHANGED <<rp_i, rp_input, aoi_gdf, original_ndvi_datasets, memfiles,
                   clipped_ndvi_data_and_transforms, rp_open, rpOthers>>

\* alignment_cell_code: the target grid is taken from the first handle.
AlignBegin ==
    /\ rp_pc = "align_start"
    /\ original_ndvi_datasets # <<>>
    /\ ~rp_input.skip_alignment
    /\ aligned_ndvi_arrays' = <<>>
    /\ target_crs' = target_grid(original_ndvi_datasets[1])
    /\ rp_printed' = Append(rp_printed, Message("Performing reprojection and alignment...", 0))
    /\ rp_pc' = "align"
    /\ rp_i' = 0
    /\ UNCHANGED <<rp_input, aoi_gdf, original_ndvi_datasets, memfiles,
                   ndvi_datasets, clipped_ndvi_data_and_transforms, rp_open,
                   rpOthers>>

\* alignment_cell_code, one pass of the loop (mutant): an error ends the
\* loop.
AlignItem_aborts ==
    /\ rp_pc = "align"
    /\ rp_i < Len(original_ndvi_datasets)
    /\ LET dataset == original_ndvi_datasets[rp_i + 1] IN
       IF dataset.aligns
       THEN /\ aligned_ndvi_arrays' =
                  Append(aligned_ndvi_arrays,
                         [kind |-> "ndarray", file |-> dataset.file, clips |-> dataset.clips])
            /\ rp_printed' = Append(rp_printed,
                  Message(IF rp_i = 0 THEN "Dataset 0 (reference) read successfully."
                          ELSE "Dataset reprojected and aligned.", rp_i))
            /\ rp_i' = rp_i + 1
       ELSE /\ UNCHANGED aligned_ndvi_arrays
            /\ rp_printed' = Append(rp_printed, Message("Error processing dataset", rp_i))
            /\ rp_i' = Len(original_ndvi_datasets)
    /\ UNCHANGED <<rp_pc, rp_input, aoi_gdf, original_ndvi_datasets, memfiles,
                   ndvi_datasets, target_crs,
                   clipped_ndvi_data_and_transforms, rp_open, rpOthers>>

\* alignment_cell_code, one pass of the loop: the array is appended, or the
\* error is printed and the item left out.
AlignItem ==
    /\ rp_pc = "align"
    /\ rp_i < Len(original_ndvi_datasets)
    /\ LET dataset == original_ndvi_datasets[rp_i + 1] IN
       IF dataset.aligns
       THEN /\ aligned_ndvi_arrays' =
                  Append(aligned_ndvi_arrays,
                         [kind |-> "ndarray", file |-> dataset.file, clips |-> dataset.clips])
            /\ rp_printed' = Append(rp_printed,
                  Message(IF rp_i = 0 THEN "Dataset 0 (reference) read successfully."
                          ELSE "Dataset reprojected and aligned.", rp_i))
       ELSE /\ UNCHANGED aligned_ndvi_arrays
            /\ rp_printed' = Append(rp_printed, Message("Error processing dataset", rp_i))
    /\ rp_i' = rp_i + 1
    /\ UNCHANGED <<rp_pc, rp_input, aoi_gdf, original_ndvi_datasets, memfiles,
                   ndvi_datasets, target_crs,
                   clipped_ndvi_data_and_transforms, rp_open, rpOthers>>

\* alignment_cell_code: ndvi_datasets = aligned_ndvi_arrays
AlignEnd ==
    /\ rp_pc = "align"
    /\ rp_i = Len(original_ndvi_datasets)
    /\ ndvi_datasets' = aligned_ndvi_arrays
    /\ rp_printed' = Append(rp_printed, Message("Alignment complete", Len(aligned_ndvi_arrays)))
    /\ rp_pc' = "clip_start"
    /\ UNCHANGED <<rp_i, rp_input, aoi_gdf, original_ndvi_datasets, memfiles,
                   aligned_ndvi_arrays, target_crs,
                   clipped_ndvi_data_and_transforms, rp_open, rpOthers>>

\* clipping_cell_code: the polygon, the rasters or the target grid are
\* missing.
ClipSkipped ==
    /\ rp_pc = "clip_start"
    /\ aoi_gdf = <<>> \/ ndvi_datasets = <<>> \/ target_crs = <<>>
    /\ clipped_ndvi_data_and_transforms' = <<>>
    /\ rp_printed' = Append(rp_printed,
          Message(IF aoi_gdf = <<>> \/ ndvi_datasets = <<>>
                  THEN "AOI polygon or NDVI datasets not available. Skipping clipping process."
                  ELSE "Target CRS or Transform not defined. Cannot clip.", 0))
    /\ rp_pc' = "done"
    /\ UNCHANGED <<rp_i, rp_input, aoi_gdf, original_ndvi_datasets, memfiles,
                   ndvi_datasets, aligned_ndvi_arrays, target_crs, rp_open,
                   rpOthers>>

\* clipping_cell_code (mutant): after the failed to_crs the stage still ends
\* by replacing ndvi_datasets with the empty list of clipped items.
ClipReprojectFails_replaces ==
    /\ rp_pc = "clip_start"
    /\ aoi_gdf # <<>> /\ ndvi_datasets # <<>> /\ target_crs # <<>>
    /\ aoi_gdf[1].crs # target_crs[1]
    /\ ~aoi_gdf[1].reprojects
    /\ clipped_ndvi_data_and_transforms' = <<>>
    /\ aoi_gdf' = <<>>
    /\ ndvi_datasets' = <<>>
    /\ rp_printed' = Append(rp_printed, Message("Error reprojecting AOI polygon", 0))
    /\ rp_pc' = "done"
    /\ UNCHANGED <<rp_i, rp_input, original_ndvi_datasets, memfiles,
                   aligned_ndvi_arrays, target_crs, rp_open, rpOthers>>

\* clipping_cell_code: to_crs raises; the error is printed, aoi_gdf becomes
\* None and nothing is clipped.
ClipReprojectFails ==
    /\ rp_pc = "clip_start"
    /\ aoi_gdf # <<>> /\ ndvi_datasets # <<>> /\ target_crs # <<>>
    /\ aoi_gdf[1].crs # target_crs[1]
    /\ ~aoi_gdf[1].reprojects
    /\ clipped_ndvi_data_and_transforms' = <<>>
    /\ aoi_gdf' = <<>>
    /\ rp_printed' = Append(rp_printed, Message("Error reprojecting AOI polygon", 0))
    /\ rp_pc' = "done"
    /\ UNCHANGED <<rp_i, rp_input, original_ndvi_datasets, memfiles,
                   ndvi_datasets, aligned_ndvi_arrays, target_crs, rp_open,
                   rpOthers>>

\* clipping_cell_code: the polygon is in the target CRS, as loaded or after
\* to_crs.
ClipBegin ==
    /\ rp_pc = "clip_start"
    /\ aoi_gdf # <<>> /\ ndvi_datasets # <<>> /\ target_crs # <<>>
    /\ aoi_gdf[1].crs = target_crs[1] \/ aoi_gdf[1].reprojects
    /\ clipped_ndvi_data_and_transforms' = <<>>
    /\ aoi_gdf' = <<[aoi_gdf[1] EXCEPT !.crs = target_crs[1]]>>
    /\ rp_printed' =
          IF aoi_gdf[1].crs = target_crs[1] THEN rp_printed
          ELSE Append(rp_printed, Message("AOI polygon reprojected to target CRS", 0))
    /\ rp_pc' = "clip"
    /\ rp_i' = 0
    /\ UNCHANGED <<rp_input, original_ndvi_datasets, memfiles, ndvi_datasets,
                   aligned_ndvi_arrays, target_crs, rp_open, rpOthers>>

\* clipping_cell_code, one pass of the loop.  A handle is masked as it is;
\* an array is written to a temporary MemoryFile, which its with block
\* closes before the pass ends.
ClipItem ==
    /\ rp_pc = "clip"
    /\ rp_i < Len(ndvi_datasets)
    /\ LET dataset_or_array == ndvi_datasets[rp_i + 1] IN
       IF dataset_or_array.clips
       THEN /\ clipped_ndvi_data_and_transforms' =
                  Append(clipped_ndvi_data_and_transforms,
                         [kind |-> "clipped", file |-> dataset_or_array.file])
            /\ rp_printed' = Append(rp_printed,
                  Message(IF dataset_or_array.kind = "DatasetReader"
                          THEN "NDVI dataset clipped successfully."
                          ELSE "NDVI array clipped successfully.", rp_i))
       ELSE /\ UNCHANGED clipped_ndvi_data_and_transforms
            /\ rp_printed' = Append(rp_printed, Message("Error clipping item", rp_i))
    /\ rp_i' = rp_i + 1
    /\ UNCHANGED <<rp_pc, rp_input, aoi_gdf, original_ndvi_datasets, memfiles,
                   ndvi_datasets, aligned_ndvi_arrays, target_crs, rp_open,
                   rpOthers>>

\* clipping_cell_code: ndvi_datasets = clipped_ndvi_data_and_transforms
ClipEnd ==
    /\ rp_pc = "clip"
    /\ rp_i = Len(ndvi_datasets)
    /\ ndvi_datasets' = clipped_ndvi_data_and_transforms
    /\ rp_printed' = Append(rp_printed, Message("Clipping complete", Len(clipped_ndvi_data_and_transforms)))
    /\ rp_pc' = "done"
    /\ UNCHANGED <<rp_i, rp_input, aoi_gdf, original_ndvi_datasets, memfiles,
                   aligned_ndvi_arrays, target_crs,
                   clipped_ndvi_data_and_transforms, rp_open, rpOthers>>

NextPipeline ==
    \/ LoadAOI \/ LoadRaster \/ LoadingSummary
    \/ AlignNoRasters \/ AlignSkipped \/ AlignBegin \/ AlignItem \/ AlignEnd
    \/ ClipSkipped \/ ClipReprojectFails \/ ClipBegin \/ ClipItem \/ ClipEnd

SpecPipeline == InitPipeline /\ [][NextPipeline]_vars

\* C20: every MemoryFile stays referenced and open for as long as the
\* handle opened from it is open (memfiles and original_ndvi_datasets have
\* the same length and the k-th MemoryFile backs the k-th handle), and once
\* the clipping stage is over both the MemoryFile and the handle of every
\* raster have been released.
C20_BufferLifetime ==
    /\ Len(memfiles) = Len(original_ndvi_datasets)
    /\ \A k \in 1..Len(original_ndvi_datasets) :
          /\ memfiles[k] = MemFile(original_ndvi_datasets[k].file)
          /\ Handle(original_ndvi_datasets[k].file) \in rp_open => memfiles[k] \in rp_open
    /\ rp_pc = "done" =>
          \A k \in 1..Len(original_ndvi_datasets) :
              /\ memfiles[k] \notin rp_open
              /\ Handle(original_ndvi_datasets[k].file) \notin rp_open

\* What the alignment stage leaves in ndvi_datasets: the original handles
\* when nothing was loaded or alignment is skipped, the aligned arrays
\* otherwise.
AlignmentResult ==
    IF original_ndvi_datasets = <<>> \/ rp_input.skip_alignment
    THEN original_ndvi_datasets
    ELSE aligned_ndvi_arrays

\* The clipping stage met a loaded polygon, a non-empty ndvi_datasets and a
\* target grid, and the polygon's CRS differs and cannot be reprojected.
ReprojectionFailed ==
    /\ rp_pc = "done"
    /\ rp_input.aoi_upload.kind = "gdf"
    /\ AlignmentResult # <<>>
    /\ target_crs # <<>>
    /\ rp_input.aoi_upload.crs # target_crs[1]
    /\ ~rp_input.aoi_upload.reprojects

ClipMessages ==
    {"NDVI dataset clipped successfully.", "NDVI array clipped successfully.",
     "Error clipping item"}

Printed(text) == \E n \in 1..Len(rp_printed) : rp_printed[n].msg = text

\* The clipping stage met a loaded polygon and a non-empty ndvi_datasets
\* but no target grid: the first raster has no coordinate system.
TargetGridMissing ==
    /\ rp_pc = "done"
    /\ rp_input.aoi_upload.kind = "gdf"
    /\ AlignmentResult # <<>>
    /\ original_ndvi_datasets[1].crs = None

\* C21: an item is clipped only when a polygon is loaded, ndvi_datasets is
\* non-empty and the target grid is defined (with a polygon and rasters but
\* no target grid the stage reports that it cannot clip, attempts no item
\* and leaves ndvi_datasets as it was); when the polygon's CRS differs
\* from the target CRS and reprojecting it fails, the stage ends with the
\* error printed, no item clipped or attempted, and ndvi_datasets exactly
\* what the alignment stage produced.
C21_ClipPreconditions ==
    /\ (\E text \in ClipMessages : Printed(text)) =>
           /\ rp_input.aoi_upload.kind = "gdf"
           /\ aoi_gdf # <<>>
           /\ AlignmentResult # <<>>
           /\ target_crs # <<>>
           /\ original_ndvi_datasets[1].crs # None
           /\ aoi_gdf[1].crs = target_crs[1]
    /\ TargetGridMissing =>
           /\ target_crs = <<>>
           /\ Printed("Target CRS or Transform not defined. Cannot clip.")
           /\ ~Printed("Error reprojecting AOI polygon")
           /\ \A text \in ClipMessages : ~Printed(text)
           /\ clipped_ndvi_data_and_transforms = <<>>
           /\ ndvi_datasets = AlignmentResult
           /\ aoi_gdf # <<>>
    /\ ReprojectionFailed =>
           /\ Printed("Error reprojecting AOI polygon")
           /\ \A text \in ClipMessages : ~Printed(text)
           /\ clipped_ndvi_data_and_transforms = <<>>
           /\ ndvi_datasets = AlignmentResult
           /\ aoi_gdf = <<>>

\* The polygon could not be reprojected and two aligned arrays stay in
\* ndvi_datasets.
C21_Witness ==
    /\ ReprojectionFailed
    /\ ~rp_input.skip_alignment
    /\ Len(ndvi_datasets) = 2
    /\ ndvi_datasets = aligned_ndvi_arrays
    /\ Printed("Error reprojecting AOI polygon")

AlignMessages ==
    {"Dataset 0 (reference) read successfully.",
     "Dataset reprojected and aligned.", "Error processing dataset"}

\* The positions in the output of the messages of a stage about item i
Reports(texts, i) ==
    {n \in 1..Len(rp_printed) : rp_printed[n].msg \in texts /\ rp_printed[n].item = i}

\* The stage reported every one of the first count items once, in order.
AllProcessed(texts, count) ==
    /\ \A i \in 0..(count - 1) : Cardinality(Reports(texts, i)) = 1
    /\ \A i, j \in 0..(count - 1) :
          i < j => \A n \in Reports(texts, i) : \A k \in Reports(texts, j) : n < k
    /\ \A n \in 1..Len(rp_printed) :
          rp_printed[n].msg \in texts => rp_printed[n].item \in 0..(count - 1)

AlignmentOver == rp_pc \in {"clip_start", "clip", "done"}

\* The clipping stage has what it needs: a polygon in the target CRS or one
\* that reprojects to it, a non-empty ndvi_datasets and a target grid.
ClippingDue ==
    /\ rp_input.aoi_upload.kind = "gdf"
    /\ AlignmentResult # <<>>
    /\ target_crs # <<>>
    /\ rp_input.aoi_upload.crs = target_crs[1] \/ rp_input.aoi_upload.reprojects

\* C22: in the alignment and clipping stages an error on item i is printed
\* and the later items are still processed: each stage reports every item
\* once, in order, and completes; the target grid stays that of the first
\* loaded raster; with no raster loaded alignment is skipped and the target
\* grid stays undefined; with the skip-alignment checkbox set nothing is
\* resampled and ndvi_datasets is the list of the original handles.
C22_ErrorsDoNotAbort ==
    /\ AlignmentOver /\ original_ndvi_datasets # <<>> /\ ~rp_input.skip_alignment =>
           /\ AllProcessed(AlignMessages, Len(original_ndvi_datasets))
           /\ \A i \in 1..Len(original_ndvi_datasets) :
                 ~original_ndvi_datasets[i].aligns =>
                     \E n \in Reports({"Error processing dataset"}, i - 1) : TRUE
           /\ Printed("Alignment complete")
    /\ rp_pc = "done" /\ ClippingDue =>
           /\ AllProcessed(ClipMessages, Len(AlignmentResult))
           /\ \A i \in 1..Len(AlignmentResult) :
                 ~AlignmentResult[i].clips =>
                     \E n \in Reports({"Error clipping item"}, i - 1) : TRUE
           /\ Printed("Clipping complete")
    /\ rp_pc \in {"align", "clip_start", "clip", "done"} =>
           target_crs = IF original_ndvi_datasets = <<>> THEN <<>>
                        ELSE target_grid(original_ndvi_datasets[1])
    /\ AlignmentOver /\ original_ndvi_datasets = <<>> =>
           /\ Printed("No NDVI datasets loaded. Skipping reprojection and alignment.")
           /\ AllProcessed(AlignMessages, 0)
           /\ ndvi_datasets = <<>>
    /\ AlignmentOver /\ original_ndvi_datasets # <<>> /\ rp_input.skip_alignment =>
           /\ AllProcessed(AlignMessages, 0)
           /\ aligned_ndvi_arrays = <<>>
           /\ rp_pc = "clip_start" => ndvi_datasets = original_ndvi_datasets

\* The first raster failed to align, the second was still reprojected, and
\* the stage completed with one array.
C22_Witness ==
    /\ rp_pc = "clip_start"
    /\ Len(original_ndvi_datasets) = 2
    /\ Reports({"Error processing dataset"}, 0) # {}
    /\ Reports({"Dataset reprojected and aligned."}, 1) # {}
    /\ Printed("Alignment complete")
    /\ Len(ndvi_datasets) = 1

\* C29: after the alignment stage and after a clipping stage that clipped,
\* ndvi_datasets has as many elements as rasters were loaded and its k-th
\* element is derived from the k-th loaded raster, whatever the
\* skip-alignment setting and whichever items failed.
C29_PositionsPreserved ==
    rp_pc = "clip_start" \/ (rp_pc = "done" /\ Printed("Clipping complete")) =>
        /\ Len(ndvi_datasets) = Len(original_ndvi_datasets)
        /\ \A k \in 1..Len(ndvi_datasets) :
              k <= Len(original_ndvi_datasets) =>
                  ndvi_datasets[k].file = original_ndvi_datasets[k].file

(***************************************************************************)
(*                fix_embeddings.py: cosine_similarity                     *)
(*                                                                         *)
(* numpy computes the norms, their product and the quotient in binary64.   *)
(***************************************************************************)
\* np.dot(a, b): the vectors explored hold small integers, so the sum is
\* an integer and exact.
RECURSIVE dot(_, _)
dot(a, b) == IF a = <<>> THEN 0 ELSE Head(a) * Head(b) + dot(Tail(a), Tail(b))

\* np.linalg.norm(a): sqrt(a.dot(a))
norm(a) == sqrt(FromInt(dot(a, a)))

\* cosine_similarity (mutant: without the test of the norms).
cosine_similarity_no_guard(a, b) ==
    LET dot_product == dot(a, b)
        norm_a == norm(a)
        norm_b == norm(b)
    IN  IF multiply(norm_a, norm_b) = Zero
        THEN [value |-> [sign |-> 0, m |-> <<>>, e |-> 0, nan |-> TRUE],
              divided_by |-> <<Zero>>]
        ELSE [value |-> true_divide(FromInt(dot_product), multiply(norm_a, norm_b)),
              divided_by |-> <<multiply(norm_a, norm_b)>>]

\* cosine_similarity: the value returned and the divisor of the division
\* made, if one was made.
cosine_similarity(a, b) ==
    LET dot_product == dot(a, b)
        norm_a == norm(a)
        norm_b == norm(b)
    IN  IF norm_a = Zero \/ norm_b = Zero
        THEN [value |-> Zero, divided_by |-> <<>>]
        ELSE [value |-> true_divide(FromInt(dot_product), multiply(norm_a, norm_b)),
              divided_by |-> <<multiply(norm_a, norm_b)>>]

\* The vectors explored: two integer components up to MaxComponent, the
\* first one possibly negative so that the dot product can be.
MaxComponent == 3
Vectors == (-1..MaxComponent) \X (0..MaxComponent)

InitCosine ==
    /\ cs_pc = "call"
    /\ cs_a \in Vectors
    /\ cs_b \in Vectors
    /\ cs_result = <<>>
    /\ csOthersIdle

CosineSimilarity ==
    /\ cs_pc = "call"
    /\ cs_result' = cosine_similarity(cs_a, cs_b)
    /\ cs_pc' = "done"
    /\ UNCHANGED <<cs_a, cs_b, csOthers>>

NextCosine == CosineSimilarity

SpecCosine == InitCosine /\ [][NextCosine]_vars

IsZeroVector(v) == \A i \in 1..Len(v) : v[i] = 0

\* The value is within 2^-51 of 1.0: one of 1 - k * 2^-53, k <= 4, or
\* 1 + k * 2^-52, k <= 2.
NearOne(x) ==
    /\ x.sign = 1
    /\ \/ x.e = -MantissaBits
          /\ BLe(BSub(BPow2(MantissaBits), BInt(4)), x.m)
       \/ x.e = 1 - MantissaBits
          /\ BLe(x.m, BAdd(BPow2(MantissaBits - 1), BInt(2)))

\* What the call must have returned for two non-zero vectors: the quotient
\* of the dot product by the product of the norms, a non-zero divisor.
IsQuotient(a, b, result) ==
    /\ result.divided_by = <<multiply(norm(a), norm(b))>>
    /\ result.divided_by # <<Zero>>
    /\ result.value = true_divide(FromInt(dot(a, b)), result.divided_by[1])

\* C17 as stated: cosine_similarity(a, b) returns 0.0 whenever a or b is the
\* zero vector, without dividing; for two non-zero vectors it returns
\* dot(a, b) / (norm(a) * norm(b)), and cosine_similarity(v, v) equals 1.0
\* for any non-zero v.
C17_AsStated ==
    cs_pc = "done" =>
        /\ IsZeroVector(cs_a) \/ IsZeroVector(cs_b) =>
               cs_result = [value |-> Zero, divided_by |-> <<>>]
        /\ ~IsZeroVector(cs_a) /\ ~IsZeroVector(cs_b) =>
               IsQuotient(cs_a, cs_b, cs_result)
        /\ cs_a = cs_b /\ ~IsZeroVector(cs_a) => cs_result.value = One

\* C17 (amended): cosine_similarity(a, b) returns 0.0 whenever a or b is the
\* zero vector, without dividing; for two non-zero vectors of small integer
\* components it returns the double dot(a, b) / (norm(a) * norm(b)) with a
\* non-zero divisor, and cosine_similarity(v, v) is within 2^-51 of 1.0, not
\* always equal to it.
C17_CosineWithinRounding ==
    cs_pc = "done" =>
        /\ IsZeroVector(cs_a) \/ IsZeroVector(cs_b) =>
               cs_result = [value |-> Zero, divided_by |-> <<>>]
        /\ ~IsZeroVector(cs_a) /\ ~IsZeroVector(cs_b) =>
               IsQuotient(cs_a, cs_b, cs_result)
        /\ cs_a = cs_b /\ ~IsZeroVector(cs_a) => NearOne(cs_result.value)

\* cosine_similarity([1, 1], [1, 1]) has returned 0.9999999999999998, the
\* double just below 1.0 but one.
C17_Witness ==
    /\ cs_pc = "done"
    /\ cs_a = <<1, 1>>
    /\ cs_b = <<1, 1>>
    /\ cs_result.value =
           [sign |-> 1, m |-> BSub(BPow2(MantissaBits), BInt(2)),
            e |-> -MantissaBits]
    /\ cs_result.divided_by # <<>>

====
